---- MODULE Spec2Model ----
(***************************************************************************)
(* A model of soma-workflow's job scheduler facade                         *)
(* (python/soma/jobs/jobScheduler.py) and of its workflow object model     *)
(* (python/soma_workflow/client_types.py).                                 *)
(*                                                                         *)
(* The facade forwards to a JobServer (the registry of users, jobs and     *)
(* transfers) and to a DrmaaJobScheduler (the DRMS layer).  Neither is in  *)
(* the source tree: both are modelled from the specification's text, and   *)
(* every definition that does so says "modelled from the specification".   *)
(***************************************************************************)
EXTENDS Integers, Sequences, FiniteSets, TLC

\* ------------------------------------------------------------------------
\* Bounds and universes
\* ------------------------------------------------------------------------

\* Job identifiers the DRMS layer hands out in the job facade scenario.
MaxJobs == 1
\* Jobs and transfers of the ownership gate scenario.
GateJobs == 1
GateTransfers == 1
\* Jobs and transfers of the transfer disposal scenario.
GcJobs == 2
GcTransfers == 1
\* Longest transfer file, in lines.
MaxLines == 1
\* Last day of the calendar.
MaxDay == 1
MaxDeps == 2
MaxAdded == 3
MaxCalls == 1
DrmCap == 2
\* Crashes of the engine process in one run.
MaxCrashes == 1
\* Highest priority of a job, and dependencies of a workflow whose jobs
\* have priorities.
MaxPriority == 1
OrderDeps == 1
\* Transfers a user writes to in turn.
WriteTransfers == 2

Users == {"alice", "bob"}
None == "None"
\* No file handle: the path of no file.
NoPath == 0
\* disposal_timeout values, in hours.
Timeouts == {0, 24}

VARIABLES
    \* JobServer: the registry
    jobOwner,       \* job id -> user, for jobs submitted and not disposed
    jobStatus,      \* job id -> status
    jobJoined,      \* job id -> stderr joined to stdout (no stderr file)
    jobRefs,        \* job id -> transfers the DRMS layer holds for the job
    declared,       \* job id -> transfers the caller declared for the job
    nextJob,        \* next job id of the DRMS layer
    inDrm,          \* ids of the jobs alive in the DRM: queued, running,
                    \* held or suspended
    trOwner,        \* local path -> user, for registered transfers
    trExp,          \* local path -> expiration date (a day)
    nextPath,       \* next local path generated
    \* file system of the pool
    files,          \* local path -> lines, for files that exist
    swept,          \* local path -> what held when the sweeper deleted it
    \* clock
    today,
    \* JobScheduler instances, one per user
    fileToWrite,    \* user -> path of the cached write handle, or NoPath
    \* the last call of the facade and what it did
    last,
    \* how many job ids and paths the scenario hands out
    cap,
    \* client side: the Workflow object, and its copy through a dictionary
    wf,
    copy,
    \* the engine's record of the submitted workflow
    eng

serverVars == <<jobOwner, jobStatus, jobJoined, jobRefs, nextJob, inDrm,
                trOwner, trExp, nextPath>>
\* The variables of the workflow objects and of the engine.
wfVars == <<wf, copy, eng>>
vars == <<jobOwner, jobStatus, jobJoined, jobRefs, declared, nextJob, inDrm,
          trOwner, trExp, nextPath, files, swept, today, fileToWrite, last,
          cap, wf, copy, eng>>

\* ------------------------------------------------------------------------
\* JobServer and DrmaaJobScheduler: modelled from the specification
\* ------------------------------------------------------------------------

ActiveStatuses == {"QUEUED_ACTIVE", "RUNNING", "USER_ON_HOLD", "USER_SUSPENDED"}
TerminalStatuses == {"DONE", "FAILED", "KILLED"}
Statuses == ActiveStatuses \cup TerminalStatuses

\* JobServer.isUserJob: the job is registered and owned by the user.
isUserJob(j, u) == j \in DOMAIN jobOwner /\ jobOwner[j] = u

\* JobServer.isUserTransfer: the transfer is registered and owned by the user.
isUserTransfer(p, u) == p \in DOMAIN trOwner /\ trOwner[p] = u

\* JobServer.getJobs / getTransfers
getJobs(u) == {j \in DOMAIN jobOwner : jobOwner[j] = u}
getTransfers(u) == {p \in DOMAIN trOwner : trOwner[p] = u}

\* A function without one element of its domain.
Without(f, x) == [y \in DOMAIN f \ {x} |-> f[y]]
\* A function with one more element.
With(f, x, v) == [y \in DOMAIN f \cup {x} |-> IF y = x THEN v ELSE f[y]]

\* The DRMS layer's hold/suspend, release/resume and kill.
StatusAfterStop(s) ==
    CASE s = "QUEUED_ACTIVE" -> "USER_ON_HOLD"
      [] s = "RUNNING" -> "USER_SUSPENDED"
      [] OTHER -> s
StatusAfterRestart(s) ==
    CASE s = "USER_ON_HOLD" -> "QUEUED_ACTIVE"
      [] s = "USER_SUSPENDED" -> "RUNNING"
      [] OTHER -> s
StatusAfterKill(s) == IF s \in ActiveStatuses THEN "KILLED" ELSE s

\* The record of one call of the facade: the operation, the calling
\* user, the job id or path it names, what the caller got back, and the
\* calls the facade made on the job server, the DRMS layer and the file
\* system, in order.
\* res is the kind of result (None, an exception's name, "id", "line", ...)
\* and val the job id or path returned, 0 when there is none.  A submission
\* names no job: tgt is the length of its command.
Call(op, u, tgt, res, val, calls) ==
    [op |-> op, user |-> u, tgt |-> tgt, res |-> res, val |-> val,
     calls |-> calls]
NoCall == Call("none", None, 0, None, 0, <<>>)

\* ------------------------------------------------------------------------
\* Initial state: JobScheduler.__init__ for each user, empty server
\* ------------------------------------------------------------------------

\* The attributes JobScheduler.__init__ sets on the instance.
InstanceAttrs == {"__drmaaJS", "__jobServer", "__user_id", "__fileToRead",
                  "__fileToWrite", "__stdoutFileToRead", "__stderrFileToRead"}

FacadeInit ==
    /\ jobOwner = <<>>
    /\ jobStatus = <<>>
    /\ jobJoined = <<>>
    /\ jobRefs = <<>>
    /\ declared = <<>>
    /\ nextJob = 1
    /\ inDrm = {}
    /\ trOwner = <<>>
    /\ trExp = <<>>
    /\ nextPath = 1
    /\ files = <<>>
    /\ swept = <<>>
    /\ today = 0
    /\ fileToWrite = [u \in Users |-> NoPath]
    /\ last = NoCall

\* ------------------------------------------------------------------------
\* JobScheduler: file transfer
\* ------------------------------------------------------------------------

\* date + timedelta(hours=h): a date moves by whole days only.
DatePlusHours(d, h) == d + (h \div 24)

\* Variables no call of the facade on jobs changes.
transferVars == <<trOwner, trExp, nextPath, files, fileToWrite>>
jobVars == <<jobOwner, jobStatus, jobJoined, jobRefs, declared, nextJob, inDrm>>

registerTransfer(u, h) ==
    /\ nextPath <= cap.transfers
    /\ trOwner' = With(trOwner, nextPath, u)
    /\ trExp' = With(trExp, nextPath, DatePlusHours(today, h))
    /\ nextPath' = nextPath + 1
    /\ last' = Call("registerTransfer", u, 0, "path", nextPath,
                    <<"generateLocalFilePath", "addTransfer">>)
    /\ UNCHANGED <<jobVars, files, swept, today, fileToWrite, cap, wfVars>>

\* open(path, 'wt') creates the file or truncates it; write() adds the line
\* after what the handle has written.
writeLine(u, line, p) ==
    IF ~isUserTransfer(p, u)
    THEN /\ last' = Call("writeLine", u, p, "JobSchedulerError", 0,
                         <<"isUserTransfer">>)
         /\ UNCHANGED <<jobVars, transferVars, swept, today, cap, wfVars>>
    ELSE LET reopen == fileToWrite[u] = NoPath \/ fileToWrite[u] # p
             before == IF reopen \/ p \notin DOMAIN files
                       THEN <<>> ELSE files[p]
         IN /\ Len(before) < MaxLines
            /\ files' = With(files, p, Append(before, line))
            /\ fileToWrite' = [fileToWrite EXCEPT ![u] = p]
            /\ last' = Call("writeLine", u, p, None, 0,
                            IF reopen
                            THEN <<"isUserTransfer", "open", "write">>
                            ELSE <<"isUserTransfer", "write">>)
            /\ UNCHANGED <<jobVars, trOwner, trExp, nextPath, swept, today, cap, wfVars>>

\* cancelTransfer that deletes the transfer and its file at once.
cancelTransferAtOnce(u, p) ==
    IF ~isUserTransfer(p, u)
    THEN /\ last' = Call("cancelTransfer", u, p, None, 0, <<"isUserTransfer">>)
         /\ UNCHANGED <<jobVars, transferVars, swept, today, cap, wfVars>>
    ELSE /\ trOwner' = Without(trOwner, p)
         /\ trExp' = Without(trExp, p)
         /\ files' = IF p \in DOMAIN files THEN Without(files, p) ELSE files
         /\ last' = Call("cancelTransfer", u, p, None, 0,
                         <<"isUserTransfer", "removeTransferASAP">>)
         /\ UNCHANGED <<jobVars, nextPath, fileToWrite, swept, today, cap, wfVars>>

\* open(path, 'rt') and readline(): the file must exist.
readline(u, p) ==
    /\ last' = IF ~isUserTransfer(p, u)
               THEN Call("readline", u, p, "JobSchedulerError", 0,
                         <<"isUserTransfer">>)
               ELSE IF p \notin DOMAIN files
               THEN Call("readline", u, p, "IOError", 0,
                         <<"isUserTransfer", "open">>)
               ELSE Call("readline", u, p, "line", p,
                         <<"isUserTransfer", "readline:file">>)
    /\ UNCHANGED <<jobVars, transferVars, swept, today, cap, wfVars>>

getTransferInformation(u, p) ==
    /\ last' = IF ~isUserTransfer(p, u)
               THEN Call("getTransferInformation", u, p, None, 0,
                         <<"isUserTransfer">>)
               ELSE Call("getTransferInformation", u, p, "information", p,
                         <<"isUserTransfer", "getTransferInformation">>)
    /\ UNCHANGED <<jobVars, transferVars, swept, today, cap, wfVars>>

cancelTransfer(u, p) ==
    IF ~isUserTransfer(p, u)
    THEN /\ last' = Call("cancelTransfer", u, p, None, 0, <<"isUserTransfer">>)
         /\ UNCHANGED <<jobVars, transferVars, swept, today, cap, wfVars>>
    ELSE \* JobServer.removeTransferASAP: the expiration date becomes now
         /\ trExp' = [trExp EXCEPT ![p] = today]
         /\ last' = Call("cancelTransfer", u, p, None, 0,
                         <<"isUserTransfer", "removeTransferASAP">>)
         /\ UNCHANGED <<jobVars, trOwner, nextPath, files, fileToWrite,
                        swept, today, cap, wfVars>>

\* ------------------------------------------------------------------------
\* JobScheduler: job submission
\* ------------------------------------------------------------------------

\* What no call on jobs touches.
untouchedByJobs == <<trOwner, trExp, nextPath, files, fileToWrite, swept, today,
                    cap, wfVars>>

\* len(command) of a submission.
CommandLen(emptyCommand) == IF emptyCommand THEN 0 ELSE 1

\* customSubmit and submit reach the DRMS layer through self._drmaaJS, an
\* attribute __init__ never sets (it sets self.__drmaaJS).
customSubmit(u, emptyCommand) ==
    /\ last' = IF emptyCommand
               THEN Call("customSubmit", u, CommandLen(emptyCommand), "JobSchedulerError", 0, <<>>)
               ELSE IF "_drmaaJS" \notin InstanceAttrs
                    THEN Call("customSubmit", u, CommandLen(emptyCommand), "AttributeError", 0, <<>>)
                    ELSE Call("customSubmit", u, CommandLen(emptyCommand), "id", nextJob,
                              <<"drmaa.customSubmit">>)
    /\ IF ~emptyCommand /\ "_drmaaJS" \in InstanceAttrs
       THEN /\ nextJob <= cap.jobs
            /\ jobOwner' = With(jobOwner, nextJob, u)
            /\ jobStatus' = With(jobStatus, nextJob, "QUEUED_ACTIVE")
            /\ jobJoined' = With(jobJoined, nextJob, TRUE)
            /\ jobRefs' = With(jobRefs, nextJob, {})
            /\ declared' = With(declared, nextJob, {})
            /\ nextJob' = nextJob + 1
            /\ inDrm' = inDrm \cup {nextJob}
       ELSE UNCHANGED jobVars
    /\ UNCHANGED untouchedByJobs

submit(u, emptyCommand, join) ==
    /\ last' = IF emptyCommand
               THEN Call("submit", u, CommandLen(emptyCommand), "JobSchedulerError", 0, <<>>)
               ELSE IF "_drmaaJS" \notin InstanceAttrs
                    THEN Call("submit", u, CommandLen(emptyCommand), "AttributeError", 0, <<>>)
                    ELSE Call("submit", u, CommandLen(emptyCommand), "id", nextJob, <<"drmaa.submit">>)
    /\ IF ~emptyCommand /\ "_drmaaJS" \in InstanceAttrs
       THEN /\ nextJob <= cap.jobs
            /\ jobOwner' = With(jobOwner, nextJob, u)
            /\ jobStatus' = With(jobStatus, nextJob, "QUEUED_ACTIVE")
            /\ jobJoined' = With(jobJoined, nextJob, join)
            /\ jobRefs' = With(jobRefs, nextJob, {})
            /\ declared' = With(declared, nextJob, {})
            /\ nextJob' = nextJob + 1
            /\ inDrm' = inDrm \cup {nextJob}
       ELSE UNCHANGED jobVars
    /\ UNCHANGED untouchedByJobs

\* submitWithTransfer without the test of the command's length.
submitWithTransferUnchecked(u, emptyCommand, ins, outs, join) ==
    /\ nextJob <= cap.jobs
    /\ jobOwner' = With(jobOwner, nextJob, u)
    /\ jobStatus' = With(jobStatus, nextJob, "QUEUED_ACTIVE")
    /\ jobJoined' = With(jobJoined, nextJob, join)
    /\ jobRefs' = With(jobRefs, nextJob, ins \cup outs)
    /\ declared' = With(declared, nextJob, ins \cup outs)
    /\ nextJob' = nextJob + 1
    /\ inDrm' = inDrm \cup {nextJob}
    /\ last' = Call("submitWithTransfer", u, CommandLen(emptyCommand), "id",
                    nextJob, <<"drmaa.submitWithTransfer">>)
    /\ UNCHANGED untouchedByJobs

\* The output files are left out of what is handed over.
ForwardedInputsOnly(ins, outs) == ins

\* The files the facade hands to the DRMS layer with the job.
ForwardedFiles(ins, outs) == ins \cup outs

submitWithTransfer(u, emptyCommand, ins, outs, join) ==
    IF emptyCommand
    THEN /\ last' = Call("submitWithTransfer", u, CommandLen(emptyCommand), "JobSchedulerError", 0, <<>>)
         /\ UNCHANGED <<jobVars, untouchedByJobs>>
    ELSE /\ nextJob <= cap.jobs
         /\ jobOwner' = With(jobOwner, nextJob, u)
         /\ jobStatus' = With(jobStatus, nextJob, "QUEUED_ACTIVE")
         /\ jobJoined' = With(jobJoined, nextJob, join)
         /\ jobRefs' = With(jobRefs, nextJob, ForwardedFiles(ins, outs))
         /\ declared' = With(declared, nextJob, ins \cup outs)
         /\ nextJob' = nextJob + 1
         /\ inDrm' = inDrm \cup {nextJob}
         /\ last' = Call("submitWithTransfer", u, CommandLen(emptyCommand), "id", nextJob,
                         <<"drmaa.submitWithTransfer">>)
         /\ UNCHANGED untouchedByJobs

\* dispose without the ownership test: any registered job is disposed.
disposeAnyJob(u, j) ==
    IF j \notin DOMAIN jobOwner
    THEN /\ last' = Call("dispose", u, j, None, 0, <<"isUserJob">>)
         /\ UNCHANGED <<jobVars, untouchedByJobs>>
    ELSE /\ jobOwner' = Without(jobOwner, j)
         /\ jobStatus' = Without(jobStatus, j)
         /\ jobJoined' = Without(jobJoined, j)
         /\ jobRefs' = Without(jobRefs, j)
         /\ declared' = Without(declared, j)
         /\ last' = Call("dispose", u, j, None, 0,
                         <<"isUserJob", "drmaa.dispose">>)
         /\ inDrm' = inDrm \ {j}
         /\ UNCHANGED <<nextJob, untouchedByJobs>>

\* dispose that removes the job's record and leaves the job to the DRM.
disposeRecordOnly(u, j) ==
    IF ~isUserJob(j, u)
    THEN /\ last' = Call("dispose", u, j, None, 0, <<"isUserJob">>)
         /\ UNCHANGED <<jobVars, untouchedByJobs>>
    ELSE /\ jobOwner' = Without(jobOwner, j)
         /\ jobStatus' = Without(jobStatus, j)
         /\ jobJoined' = Without(jobJoined, j)
         /\ jobRefs' = Without(jobRefs, j)
         /\ declared' = Without(declared, j)
         /\ last' = Call("dispose", u, j, None, 0,
                         <<"isUserJob", "drmaa.dispose">>)
         /\ UNCHANGED <<nextJob, inDrm, untouchedByJobs>>

dispose(u, j) ==
    IF ~isUserJob(j, u)
    THEN /\ last' = Call("dispose", u, j, None, 0, <<"isUserJob">>)
         /\ UNCHANGED <<jobVars, untouchedByJobs>>
    ELSE \* DrmaaJobScheduler.dispose: kills the job if it is alive in the
         \* DRM, then removes it from the job server
         /\ jobOwner' = Without(jobOwner, j)
         /\ jobStatus' = Without(jobStatus, j)
         /\ jobJoined' = Without(jobJoined, j)
         /\ jobRefs' = Without(jobRefs, j)
         /\ declared' = Without(declared, j)
         /\ last' = Call("dispose", u, j, None, 0,
                         <<"isUserJob", "drmaa.dispose">>)
         /\ inDrm' = inDrm \ {j}
         /\ UNCHANGED <<nextJob, untouchedByJobs>>

\* ------------------------------------------------------------------------
\* JobScheduler: monitoring
\* ------------------------------------------------------------------------

\* A call that reads and changes nothing on the servers.
Observes(call) ==
    /\ last' = call
    /\ UNCHANGED <<jobVars, untouchedByJobs>>

\* status that raises for the job of another user and returns None for an
\* id that is no job.
statusTellingApart(u, j) ==
    Observes(IF j \notin DOMAIN jobOwner
             THEN Call("status", u, j, None, 0, <<"isUserJob">>)
             ELSE IF jobOwner[j] # u
             THEN Call("status", u, j, "JobSchedulerError", 0, <<"isUserJob">>)
             ELSE Call("status", u, j, jobStatus[j], 0,
                       <<"isUserJob", "getJobStatus">>))

status(u, j) ==
    Observes(IF ~isUserJob(j, u)
             THEN Call("status", u, j, None, 0, <<"isUserJob">>)
             ELSE Call("status", u, j, jobStatus[j], 0,
                       <<"isUserJob", "getJobStatus">>))

exitInformation(u, j) ==
    Observes(IF ~isUserJob(j, u)
             THEN Call("exitInformation", u, j, None, 0, <<"isUserJob">>)
             ELSE Call("exitInformation", u, j, "exitInformation", 0,
                       <<"isUserJob", "getExitInformation">>))

\* Opening (when the cached handle is of another file) and reading a line
\* of a standard stream file is the one call "readline:<stream>".
stdoutReadLine(u, j) ==
    Observes(IF ~isUserJob(j, u)
             THEN Call("stdoutReadLine", u, j, None, 0, <<"isUserJob">>)
             ELSE Call("stdoutReadLine", u, j, "line", j,
                       <<"isUserJob", "getStdOutErrFilePath",
                         "readline:stdout">>))

\* Line 614 reads self.__jobserver, an attribute __init__ never sets (it
\* sets self.__jobServer), and returns when the job IS the user's.
stderrReadLine(u, j) ==
    Observes(IF "__jobserver" \notin InstanceAttrs
             THEN Call("stderrReadLine", u, j, "AttributeError", 0, <<>>)
             ELSE IF isUserJob(j, u)
             THEN Call("stderrReadLine", u, j, None, 0, <<"isUserJob">>)
             ELSE IF j \notin DOMAIN jobOwner
             THEN Call("stderrReadLine", u, j, "LookupError", 0,
                       <<"isUserJob", "getStdOutErrFilePath">>)
             ELSE IF jobJoined[j]
             THEN Call("stderrReadLine", u, j, None, 0,
                       <<"isUserJob", "getStdOutErrFilePath">>)
             ELSE Call("stderrReadLine", u, j, "line", j,
                       <<"isUserJob", "getStdOutErrFilePath",
                         "readline:stderr">>))

\* output and errorOutput ask the job server for the path and open it;
\* neither asks whose job it is.
output(u, j) ==
    Observes(IF j \notin DOMAIN jobOwner
             THEN Call("output", u, j, "LookupError", 0,
                       <<"getStdOutErrFilePath">>)
             ELSE Call("output", u, j, "file", j,
                       <<"getStdOutErrFilePath", "open:stdout">>))

errorOutput(u, j) ==
    Observes(IF j \notin DOMAIN jobOwner
             THEN Call("errorOutput", u, j, "LookupError", 0,
                       <<"areErrOutJoined">>)
             ELSE IF jobJoined[j]
             THEN Call("errorOutput", u, j, None, 0, <<"areErrOutJoined">>)
             ELSE Call("errorOutput", u, j, "file", j,
                       <<"areErrOutJoined", "getStdOutErrFilePath",
                         "open:stderr">>))

\* ------------------------------------------------------------------------
\* JobScheduler: job control
\* ------------------------------------------------------------------------

wait(u, js) ==
    Observes(IF \E j \in js : ~isUserJob(j, u)
             THEN Call("wait", u, 0, "JobSchedulerError", 0, <<"isUserJob">>)
             ELSE Call("wait", u, 0, None, 0, <<"isUserJob", "drmaa.wait">>))

\* stop, restart and kill differ in the DRMS call only.
Control(op, u, j, after) ==
    IF ~isUserJob(j, u)
    THEN /\ last' = Call(op, u, j, "JobSchedulerError", 0, <<"isUserJob">>)
         /\ UNCHANGED <<jobVars, untouchedByJobs>>
    ELSE /\ jobStatus' = [jobStatus EXCEPT ![j] = after]
         /\ inDrm' = IF after \in ActiveStatuses THEN inDrm ELSE inDrm \ {j}
         /\ last' = Call(op, u, j, None, 0, <<"isUserJob", "drmaa." \o op>>)
         /\ UNCHANGED <<jobOwner, jobJoined, jobRefs, declared, nextJob,
                      untouchedByJobs>>

stop(u, j) ==
    Control("stop", u, j,
            IF j \in DOMAIN jobStatus THEN StatusAfterStop(jobStatus[j]) ELSE None)

restart(u, j) ==
    Control("restart", u, j,
            IF j \in DOMAIN jobStatus THEN StatusAfterRestart(jobStatus[j]) ELSE None)

\* kill that holds or suspends the job, as stop does.
killAsStop(u, j) ==
    Control("kill", u, j,
            IF j \in DOMAIN jobStatus THEN StatusAfterStop(jobStatus[j]) ELSE None)

kill(u, j) ==
    Control("kill", u, j,
            IF j \in DOMAIN jobStatus THEN StatusAfterKill(jobStatus[j]) ELSE None)

\* ------------------------------------------------------------------------
\* The DRMS, the clock and the sweeper: modelled from the specification
\* ------------------------------------------------------------------------

\* Nothing the facade was called for.
Background == last' = NoCall

DrmsRuns(j) ==
    /\ j \in DOMAIN jobStatus
    /\ jobStatus[j] = "QUEUED_ACTIVE"
    /\ jobStatus' = [jobStatus EXCEPT ![j] = "RUNNING"]
    /\ inDrm' = inDrm
    /\ Background
    /\ UNCHANGED <<jobOwner, jobJoined, jobRefs, declared, nextJob,
                      untouchedByJobs>>

DrmsEnds(j, s) ==
    /\ j \in DOMAIN jobStatus
    /\ jobStatus[j] = "RUNNING"
    /\ jobStatus' = [jobStatus EXCEPT ![j] = s]
    /\ inDrm' = inDrm \ {j}
    /\ Background
    /\ UNCHANGED <<jobOwner, jobJoined, jobRefs, declared, nextJob,
                      untouchedByJobs>>

Tick ==
    /\ today < MaxDay
    /\ today' = today + 1
    /\ Background
    /\ UNCHANGED <<jobVars, transferVars, swept, cap, wfVars>>

\* The jobs, not disposed, that hold a reference on the transfer.
Referencing(p) == {j \in DOMAIN jobRefs : p \in jobRefs[j]}

\* The sweeper deletes the bytes of a transfer whose expiration has passed
\* and that no job references, and forgets the transfer.
SweepTransfer(p) ==
    /\ p \in DOMAIN trOwner
    /\ trExp[p] <= today
    /\ Referencing(p) = {}
    /\ trOwner' = Without(trOwner, p)
    /\ trExp' = Without(trExp, p)
    /\ files' = IF p \in DOMAIN files THEN Without(files, p) ELSE files
    /\ fileToWrite' = fileToWrite
    /\ swept' = With(swept, p, [day |-> today, exp |-> trExp[p],
                                refs |-> {j \in DOMAIN declared : p \in declared[j]}])
    /\ Background
    /\ UNCHANGED <<jobVars, nextPath, today, cap, wfVars>>

\* ------------------------------------------------------------------------
\* The facade, the DRMS and the sweeper together
\* ------------------------------------------------------------------------

\* The job ids and paths a caller may name: those handed out and one more.
JobTargets == 1..(cap.jobs + 1)
PathTargets == 1..(cap.transfers + 1)

\* Submissions and what the DRMS does to the jobs.
JobLife ==
    \/ \E u \in Users, e \in BOOLEAN : customSubmit(u, e)
    \/ \E u \in Users, e \in BOOLEAN, jn \in BOOLEAN : submit(u, e, jn)
    \/ \E u \in Users, e \in BOOLEAN, jn \in BOOLEAN,
          ins \in SUBSET DOMAIN trOwner :
            submitWithTransfer(u, e, ins, {}, jn)
    \/ \E u \in Users, j \in JobTargets : dispose(u, j)
    \/ \E j \in DOMAIN jobStatus : DrmsRuns(j)
    \/ \E j \in DOMAIN jobStatus, s \in {"DONE", "FAILED"} : DrmsEnds(j, s)

Monitoring ==
    \/ \E u \in Users, j \in JobTargets : status(u, j)
    \/ \E u \in Users, j \in JobTargets : exitInformation(u, j)
    \/ \E u \in Users, j \in JobTargets : stdoutReadLine(u, j)
    \/ \E u \in Users, j \in JobTargets : stderrReadLine(u, j)
    \/ \E u \in Users, j \in JobTargets : output(u, j)
    \/ \E u \in Users, j \in JobTargets : errorOutput(u, j)
    \/ \E u \in Users, j \in JobTargets : wait(u, {j})

JobControl ==
    \/ \E u \in Users, j \in JobTargets : stop(u, j)
    \/ \E u \in Users, j \in JobTargets : restart(u, j)
    \/ \E u \in Users, j \in JobTargets : kill(u, j)

\* No workflow has been built, copied or submitted.
NoWorkflow == [state |-> "none", jobs |-> <<>>, dependencies |-> <<>>,
               root_group |-> <<>>, groups |-> <<>>, root_is_jobs |-> FALSE,
               made |-> 0, supplied |-> <<>>, supplied_jobs |-> <<>>,
               calls |-> 0]
NoEngine == [state |-> "none"]
ClientInit == wf = NoWorkflow /\ copy = NoWorkflow /\ eng = NoEngine

\* The job facade: submission, monitoring and control of jobs.
Init == FacadeInit /\ ClientInit /\ cap = [jobs |-> MaxJobs, transfers |-> 0]

Next == JobLife \/ Monitoring \/ JobControl

Spec == Init /\ [][Next]_vars

\* The ownership gate: the six gated operations on jobs and transfers that
\* exist side by side.  Jobs are submitted, held, released, killed and
\* disposed; transfers are registered, written and cancelled.
GateInit ==
    FacadeInit /\ ClientInit /\ cap = [jobs |-> GateJobs, transfers |-> GateTransfers]

GateNext ==
    \/ \E u \in Users : submitWithTransfer(u, FALSE, {}, {}, FALSE)
    \/ \E u \in Users, j \in JobTargets : dispose(u, j)
    \/ JobControl
    \/ \E u \in Users : registerTransfer(u, 24)
    \/ \E u \in Users, p \in PathTargets : writeLine(u, "a", p)
    \/ \E u \in Users, p \in PathTargets : cancelTransfer(u, p)

SpecGate == GateInit /\ [][GateNext]_vars

\* The life of transfers: they are registered, declared by the jobs
\* submitted, cancelled, and swept once expired and unreferenced, while
\* jobs are disposed and days pass.
GcInit ==
    FacadeInit /\ ClientInit /\ cap = [jobs |-> GcJobs, transfers |-> GcTransfers]

GcNext ==
    \/ \E u \in Users, h \in Timeouts : registerTransfer(u, h)
    \/ \E u \in Users, ins \in SUBSET DOMAIN trOwner, outs \in SUBSET DOMAIN trOwner :
          submitWithTransfer(u, FALSE, ins, outs, FALSE)
    \/ \E u \in Users, p \in DOMAIN trOwner : cancelTransfer(u, p)
    \/ \E u \in Users, j \in DOMAIN jobOwner : dispose(u, j)
    \/ Tick
    \/ \E p \in DOMAIN trOwner : SweepTransfer(p)

SpecGC == GcInit /\ [][GcNext]_vars

\* Transfers written line by line: the users register transfers and each
\* writes lines to its own, and reads them, in any order.
Lines == {"a", "b"}

WriteInit ==
    FacadeInit /\ ClientInit /\ cap = [jobs |-> 0, transfers |-> WriteTransfers]

WriteNext ==
    \/ \E u \in Users : registerTransfer(u, 24)
    \/ \E line \in Lines, p \in DOMAIN trOwner : writeLine(trOwner[p], line, p)
    \/ \E p \in DOMAIN trOwner : readline(trOwner[p], p)

SpecWrite == WriteInit /\ [][WriteNext]_vars

\* The gated operations, each called by any user on any job or transfer,
\* those of the others and those that do not exist.
GatedOnJob(op, u, j) ==
    \/ op = "status" /\ status(u, j)
    \/ op = "exitInformation" /\ exitInformation(u, j)
    \/ op = "stdoutReadLine" /\ stdoutReadLine(u, j)
    \/ op = "dispose" /\ dispose(u, j)
    \/ op = "kill" /\ kill(u, j)
    \/ op = "stop" /\ stop(u, j)
    \/ op = "restart" /\ restart(u, j)
    \/ op = "wait" /\ wait(u, {j})

GatedOnTransfer(op, u, p) ==
    \/ op = "readline" /\ readline(u, p)
    \/ op = "writeLine" /\ writeLine(u, "a", p)
    \/ op = "cancelTransfer" /\ cancelTransfer(u, p)
    \/ op = "getTransferInformation" /\ getTransferInformation(u, p)

OpsOnJob == {"status", "exitInformation", "stdoutReadLine", "dispose", "kill",
             "stop", "restart", "wait"}
OpsOnTransfer == {"readline", "writeLine", "cancelTransfer",
                  "getTransferInformation"}

GatedNext ==
    \/ \E u \in Users : submitWithTransfer(u, FALSE, {}, {}, FALSE)
    \/ \E u \in Users : registerTransfer(u, 24)
    \/ \E op \in OpsOnJob, u \in Users, j \in JobTargets : GatedOnJob(op, u, j)
    \/ \E op \in OpsOnTransfer, u \in Users, p \in PathTargets :
          GatedOnTransfer(op, u, p)

\* Jobs are there, or transfers: no gated operation is on both.
GatedInit ==
    /\ FacadeInit /\ ClientInit
    /\ cap \in {[jobs |-> GateJobs, transfers |-> 0],
                [jobs |-> 0, transfers |-> GateTransfers]}

SpecGated == GatedInit /\ [][GatedNext]_vars

\* Transfers cancelled: registered for a day, written and cancelled by
\* their owners, declared by the jobs their owners submit, and swept, while
\* the jobs are disposed by their owners and days pass.
Sweeper == \E p \in DOMAIN trOwner : SweepTransfer(p)

CancelNext ==
    \/ \E u \in Users : registerTransfer(u, 24)
    \/ \E p \in DOMAIN trOwner : writeLine(trOwner[p], "a", p)
    \/ \E u \in Users :
          \E ins \in SUBSET getTransfers(u) :
             submitWithTransfer(u, FALSE, ins, {}, FALSE)
    \/ \E p \in DOMAIN trOwner : cancelTransfer(trOwner[p], p)
    \/ \E j \in DOMAIN jobOwner : dispose(jobOwner[j], j)
    \/ Tick
    \/ Sweeper

SpecCancel == GateInit /\ [][CancelNext]_vars

\* The sweeper goes on running.
SpecCancelFair == SpecCancel /\ WF_vars(Sweeper)

\* ------------------------------------------------------------------------
\* Claims on the facade
\* ------------------------------------------------------------------------

Range(q) == {q[i] : i \in DOMAIN q}

JobGatedOps == {"dispose", "kill", "stop", "restart"}
TransferGatedOps == {"cancelTransfer", "writeLine"}

\* The caller of the call owns what the call names, in the current state.
CallerOwns(c) ==
    IF c.op \in TransferGatedOps
    THEN isUserTransfer(c.tgt, c.user)
    ELSE isUserJob(c.tgt, c.user)

\* C1: dispose, kill, stop, restart, cancelTransfer and writeLine on a job
\* or transfer that does not exist or that the caller does not own are
\* refused: the facade asks the job server whose it is and forwards
\* nothing else, and jobs, statuses, transfers, expiration dates and file
\* contents are after the call what they were before it.
C1_RefusedCallChangesNothing ==
    [][ (last'.op \in JobGatedOps \cup TransferGatedOps /\ ~CallerOwns(last'))
        => /\ UNCHANGED <<jobOwner, jobStatus, jobRefs, trOwner, trExp, files>>
           /\ Range(last'.calls) \subseteq {"isUserJob", "isUserTransfer"} ]_vars

\* C1 witness: both a job and a transfer exist, and the last call was one
\* of the six, by a user who owns neither.
C1_Witness ==
    /\ last.op \in {"dispose", "writeLine"}
    /\ DOMAIN jobOwner # {} /\ DOMAIN files # {}
    /\ IF last.op = "dispose"
       THEN last.tgt \in DOMAIN jobOwner /\ jobOwner[last.tgt] # last.user
       ELSE last.tgt \in DOMAIN trOwner /\ trOwner[last.tgt] # last.user

\* The call went past the ownership gate, to the lookup of the stream's path.
LooksUpStream(c) ==
    Range(c.calls) \cap {"getStdOutErrFilePath", "areErrOutJoined",
                         "readline:stdout", "readline:stderr",
                         "open:stdout", "open:stderr"} # {}
GivesData(c) == c.res \in {"line", "file"}

\* C2: stderrReadLine applies the gate of stdoutReadLine: the call goes on
\* to the job's stream exactly when the job is the caller's, and for any
\* other job it returns no data and looks up and opens no file.
C2_StderrGateAsStdout ==
    last.op \in {"stdoutReadLine", "stderrReadLine"}
    => IF isUserJob(last.tgt, last.user)
       THEN LooksUpStream(last)
       ELSE ~GivesData(last) /\ ~LooksUpStream(last)

\* C3: output and errorOutput on a job the caller does not own are
\* rejected before the stream's path is looked up or the file opened.
C3_OutputOwnedOnly ==
    (last.op \in {"output", "errorOutput"} /\ ~isUserJob(last.tgt, last.user))
    => ~GivesData(last) /\ ~LooksUpStream(last)

Str(s) == [kind |-> "str", referent |-> "", text |-> s]
FileTransfer(name) == [kind |-> "FileTransfer", referent |-> name, text |-> "%s"]

\* SpecialPath.__add__: a path of the same referent, with a longer pattern.
PathAdd(path, s) == [path EXCEPT !.text = @ \o s]

Job(command, referenced_input_files, name) ==
    [kind |-> "Job", name |-> name, n |-> 0, command |-> command,
     referenced_input_files |-> referenced_input_files, elements |-> <<>>]

BarrierJob(name, n) ==
    [kind |-> "BarrierJob", name |-> name, n |-> n, command |-> <<>>,
     referenced_input_files |-> <<>>, elements |-> <<>>]

Group(elements, name) ==
    [kind |-> "Group", name |-> name, n |-> 0, command |-> <<>>,
     referenced_input_files |-> <<>>, elements |-> elements]

isGroup(x) == x.kind = "Group"

\* ------------------------------------------------------------------------
\* client_types.Workflow: construction and group dependencies
\* ------------------------------------------------------------------------

\* list.index(x), del list[i], and the elements of a list that are groups
IndexOf(list, x) ==
    CHOOSE i \in 1..Len(list) : list[i] = x /\ \A k \in 1..(i - 1) : list[k] # x
Del(list, i) ==
    [k \in 1..(Len(list) - 1) |-> IF k < i THEN list[k] ELSE list[k + 1]]
GroupsIn(list) == SelectSeq(list, isGroup)

\* The hubs already made for the group, as group_to_hub.get(group) finds
\* them: the position of the group in the dictionary, or 0.
HubsAt(group_to_hub, group) ==
    IF \E i \in 1..Len(group_to_hub) : group_to_hub[i].group = group
    THEN CHOOSE i \in 1..Len(group_to_hub) : group_to_hub[i].group = group
    ELSE 0

\* __group_hubs: the barrier pair of the group, made and added to the jobs
\* when the dictionary has none.  c carries the jobs, the dictionary (in
\* insertion order) and the count of the barrier jobs made so far.
group_hubs(c, group) ==
    IF HubsAt(c.group_to_hub, group) # 0
    THEN c
    ELSE LET in_hub == BarrierJob(group.name \o "_input", c.made + 1)
             out_hub == BarrierJob(group.name \o "_output", c.made + 2)
         IN [c EXCEPT !.group_to_hub =
                            Append(@, [group |-> group, hubs |-> <<in_hub, out_hub>>]),
                      !.jobs = @ \o <<in_hub, out_hub>>,
                      !.made = @ + 2]

\* __group_hubs_recurs: hubs for the group and, breadth first, its sub-groups.
RECURSIVE group_hubs_queue(_, _)
group_hubs_queue(c, groups) ==
    IF groups = <<>>
    THEN c
    ELSE group_hubs_queue(group_hubs(c, Head(groups)),
                          Tail(groups) \o GroupsIn(Head(groups).elements))

group_hubs_recurs(c, group) == group_hubs_queue(c, <<group>>)

Hubs(c, group) == c.group_to_hub[HubsAt(c.group_to_hub, group)].hubs

\* The links of the hubs with the jobs of the group only: the hubs of a
\* sub-group are linked to nothing above them.
RECURSIVE job_hubs_deps_from(_, _, _)
job_hubs_deps_from(c, group, i) ==
    IF i > Len(group.elements)
    THEN <<>>
    ELSE LET item == group.elements[i]
         IN (IF isGroup(item)
             THEN <<>>
             ELSE <<<<Hubs(c, group)[1], item>>, <<item, Hubs(c, group)[2]>>>>)
            \o job_hubs_deps_from(c, group, i + 1)

\* The links of the input hub only: the output hub waits for nothing.
RECURSIVE input_hub_deps_from(_, _, _)
input_hub_deps_from(c, group, i) ==
    IF i > Len(group.elements)
    THEN <<>>
    ELSE LET item == group.elements[i]
             in_hub == Hubs(c, group)[1]
         IN (IF isGroup(item)
             THEN <<<<in_hub, Hubs(c, item)[1]>>>>
             ELSE <<<<in_hub, item>>>>)
            \o input_hub_deps_from(c, group, i + 1)

\* __make_group_hubs_deps: the links of a group's hubs with its elements.
RECURSIVE make_group_hubs_deps_from(_, _, _)
make_group_hubs_deps_from(c, group, i) ==
    IF i > Len(group.elements)
    THEN <<>>
    ELSE LET item == group.elements[i]
             in_hub == Hubs(c, group)[1]
             out_hub == Hubs(c, group)[2]
         IN (IF isGroup(item)
             THEN <<<<in_hub, Hubs(c, item)[1]>>, <<Hubs(c, item)[2], out_hub>>>>
             ELSE <<<<in_hub, item>>, <<item, out_hub>>>>)
            \o make_group_hubs_deps_from(c, group, i + 1)

\* No link is made between the hubs and the elements of the group.
no_group_hubs_deps(c, group) == <<>>

make_group_hubs_deps(c, group) == make_group_hubs_deps_from(c, group, 1)

\* The loop of __convert_group_dependencies over the dependencies to check,
\* from the i-th on: c gains the hubs made, the positions to remove (the
\* last found first) and the converted dependencies.
RECURSIVE convert_scan(_, _, _, _, _)
convert_scan(c, self_dependencies, dependencies, reindex, i) ==
    IF i > Len(dependencies)
    THEN c
    ELSE LET dependency == dependencies[i]
             j1 == dependency[1]
             j2 == dependency[2]
         IN IF ~isGroup(j1) /\ ~isGroup(j2)
            THEN convert_scan(c, self_dependencies, dependencies, reindex, i + 1)
            ELSE LET index == IF reindex
                              THEN IndexOf(self_dependencies, dependency)
                              ELSE i
                     c1 == IF isGroup(j1) THEN group_hubs_recurs(c, j1) ELSE c
                     h1 == IF isGroup(j1) THEN Hubs(c1, j1)[2] ELSE j1
                     c2 == IF isGroup(j2) THEN group_hubs_recurs(c1, j2) ELSE c1
                     h2 == IF isGroup(j2) THEN Hubs(c2, j2)[1] ELSE j2
                 IN convert_scan(
                        [c2 EXCEPT !.deps_to_remove = <<index>> \o @,
                                   !.new_deps_list = Append(@, <<h1, h2>>)],
                        self_dependencies, dependencies, reindex, i + 1)

\* for group in group_to_hub: new_deps_list += __make_group_hubs_deps(group)
RECURSIVE intra_group_links(_, _)
intra_group_links(c, i) ==
    IF i > Len(c.group_to_hub)
    THEN <<>>
    ELSE make_group_hubs_deps(c, c.group_to_hub[i].group)
         \o intra_group_links(c, i + 1)

\* No dependency is removed: the converted ones stay with their groups.
remove_none(list, deps_to_remove) == list

\* for index in deps_to_remove: del self.dependencies[index]
RECURSIVE remove_converted(_, _)
remove_converted(list, deps_to_remove) ==
    IF deps_to_remove = <<>>
    THEN list
    ELSE remove_converted(Del(list, Head(deps_to_remove)), Tail(deps_to_remove))

\* __convert_group_dependencies(dependencies) on the workflow w;
\* reindex is false when no dependencies are given and all are checked.
convert_group_dependencies(w, dependencies, reindex) ==
    LET c == convert_scan([jobs |-> w.jobs, group_to_hub |-> <<>>,
                           made |-> w.made, deps_to_remove |-> <<>>,
                           new_deps_list |-> <<>>],
                          w.dependencies, dependencies, reindex, 1)
    IN [w EXCEPT !.jobs = c.jobs,
                 !.made = c.made,
                 !.root_group = IF w.root_is_jobs THEN c.jobs ELSE @,
                 !.dependencies = remove_converted(@, c.deps_to_remove)
                                  \o c.new_deps_list \o intra_group_links(c, 1)]

\* The groups of the workflow, found from the root group, last found first.
RECURSIVE explore(_, _)
explore(to_explore, groups) ==
    IF to_explore = <<>>
    THEN groups
    ELSE LET group == to_explore[Len(to_explore)]
         IN explore(SubSeq(to_explore, 1, Len(to_explore) - 1)
                        \o GroupsIn(group.elements),
                    Append(groups, group))

\* Workflow.__init__(jobs, dependencies, root_group); no root group is <<>>.
WorkflowInit(jobs, dependencies, root_group) ==
    LET w == convert_group_dependencies(
                 [state |-> "built", jobs |-> jobs, dependencies |-> dependencies,
                  root_group |-> root_group,
                  groups |-> explore(GroupsIn(root_group), <<>>),
                  root_is_jobs |-> FALSE, made |-> 0,
                  supplied |-> dependencies, supplied_jobs |-> jobs,
                  calls |-> 0],
                 dependencies, FALSE)
    IN IF root_group = <<>>
       THEN [w EXCEPT !.root_group = w.jobs, !.root_is_jobs = TRUE]
       ELSE w

\* Workflow.add_dependencies(dependencies), dependencies being a list.
add_dependencies(w, dependencies) ==
    convert_group_dependencies(
        [w EXCEPT !.dependencies = @ \o dependencies,
                  !.supplied = @ \o dependencies,
                  !.calls = @ + 1],
        dependencies, TRUE)

\* ------------------------------------------------------------------------
\* client_types: workflows to and from dictionaries
\* ------------------------------------------------------------------------
\* Dictionaries keep the order of insertion; they are sequences of
\* [key, value] records here, and keys() of a dictionary is a view that has
\* no remove().

\* An identifier in a serialized list.
Ident(k) == [kind |-> "int", referent |-> "", text |-> "", id |-> k]

\* transfer_ids[element], a FileTransfer being equal to (and hashed as)
\* any other of the same referent: the position of the entry, or 0.
TransferAt(transfer_ids, element) ==
    IF \E k \in 1..Len(transfer_ids) : transfer_ids[k].key.referent = element.referent
    THEN CHOOSE k \in 1..Len(transfer_ids) :
             transfer_ids[k].key.referent = element.referent
    ELSE 0

\* Every transfer met is given a new id, known or not.
to_serializable_anew(element, g) ==
    IF element.kind = "FileTransfer"
    THEN [g EXCEPT !.transfer_ids = Append(@, [key |-> element, value |-> g.current_id]),
                   !.current_id = @ + 1,
                   !.ser = Append(@, Ident(g.current_id))]
    ELSE [g EXCEPT !.ser = Append(@, element)]

\* to_serializable(element): g carries the id generator and transfer_ids,
\* and gains the serialized element at the end of g.ser.
to_serializable(element, g) ==
    IF element.kind = "FileTransfer"
    THEN IF TransferAt(g.transfer_ids, element) # 0
         THEN [g EXCEPT !.ser =
                 Append(@, Ident(g.transfer_ids[TransferAt(g.transfer_ids, element)].value))]
         ELSE [g EXCEPT !.transfer_ids = Append(@, [key |-> element, value |-> g.current_id]),
                        !.current_id = @ + 1,
                        !.ser = Append(@, Ident(g.current_id))]
    ELSE [g EXCEPT !.ser = Append(@, element)]

RECURSIVE list_to_serializable_from(_, _, _)
list_to_serializable_from(list_to_convert, i, g) ==
    IF i > Len(list_to_convert)
    THEN g
    ELSE list_to_serializable_from(list_to_convert, i + 1,
                                   to_serializable(list_to_convert[i], g))

list_to_serializable(list_to_convert, g) ==
    list_to_serializable_from(list_to_convert, 1, [g EXCEPT !.ser = <<>>])

\* Job.to_dict and BarrierJob.to_dict: the dictionary of the job in g.job_dict.
\* A barrier job gives its name and referenced files, not its command.
Job_to_dict(job, g) ==
    LET g1 == IF job.kind = "BarrierJob"
              THEN [g EXCEPT !.ser = <<>>]
              ELSE list_to_serializable(job.command, g)
        g2 == IF job.referenced_input_files # <<>>
              THEN list_to_serializable(job.referenced_input_files, g1)
              ELSE [g1 EXCEPT !.ser = <<>>]
    IN [g2 EXCEPT !.job_dict = [name |-> job.name, command |-> g1.ser,
                                referenced_input_files |-> g2.ser]]

\* for job, job_id in job_ids: the job goes to ser_jobs or to ser_barriers.
RECURSIVE serialize_jobs(_, _, _)
serialize_jobs(jobs, i, g) ==
    IF i > Len(jobs)
    THEN g
    ELSE LET g1 == Job_to_dict(jobs[i], g)
             entry == [key |-> i - 1, value |-> g1.job_dict]
         IN serialize_jobs(jobs, i + 1,
                IF jobs[i].kind = "BarrierJob"
                THEN [g1 EXCEPT !.ser_barriers = Append(@, entry)]
                ELSE [g1 EXCEPT !.ser_jobs = Append(@, entry)])

\* FileTransfer.to_dict: what names the transfer, and the pattern.
FileTransfer_to_dict(file_transfer) ==
    [name |-> file_transfer.referent, pattern |-> file_transfer.text]

\* Workflow.to_dict.  Jobs get the ids 0, 1, ... in the order of the jobs
\* list, the groups the next ones, the paths the ones after.
IdIn(list, first, x) == first + IndexOf(list, x) - 1

Group_to_dict(w, group) ==
    [name |-> group.name,
     elements |-> [i \in 1..Len(group.elements) |->
                     IF group.elements[i] \in Range(w.jobs)
                     THEN IdIn(w.jobs, 0, group.elements[i])
                     ELSE IdIn(w.groups, Len(w.jobs), group.elements[i])]]

Workflow_to_dict(w) ==
    IF \E d \in Range(w.dependencies) : d[1] \notin Range(w.jobs) \/ d[2] \notin Range(w.jobs)
    THEN [error |-> "Unknown jobs in dependencies."]
    ELSE IF \E x \in Range(w.root_group) \cup UNION {Range(gr.elements) : gr \in Range(w.groups)} :
                x \notin Range(w.jobs) \cup Range(w.groups)
    THEN [error |-> "Unknown element."]
    ELSE
    LET g == serialize_jobs(w.jobs, 1,
                 [current_id |-> Len(w.jobs) + Len(w.groups), transfer_ids |-> <<>>,
                  ser |-> <<>>, job_dict |-> <<>>,
                  ser_jobs |-> <<>>, ser_barriers |-> <<>>])
    IN [error |-> "",
        jobs |-> [i \in 1..Len(w.jobs) |-> i - 1],
        dependencies |-> [i \in 1..Len(w.dependencies) |->
                            <<IdIn(w.jobs, 0, w.dependencies[i][1]),
                              IdIn(w.jobs, 0, w.dependencies[i][2])>>],
        groups |-> [i \in 1..Len(w.groups) |-> Len(w.jobs) + i - 1],
        root_group |-> [i \in 1..Len(w.root_group) |->
                          IF w.root_group[i] \in Range(w.jobs)
                          THEN IdIn(w.jobs, 0, w.root_group[i])
                          ELSE IdIn(w.groups, Len(w.jobs), w.root_group[i])],
        serialized_groups |-> [i \in 1..Len(w.groups) |->
                                 [key |-> Len(w.jobs) + i - 1,
                                  value |-> Group_to_dict(w, w.groups[i])]],
        serialized_jobs |-> g.ser_jobs,
        serialized_barriers |-> g.ser_barriers,
        serialized_file_transfers |->
            [i \in 1..Len(g.transfer_ids) |->
               [key |-> g.transfer_ids[i].value,
                value |-> FileTransfer_to_dict(g.transfer_ids[i].key)]]]

\* dictionary[key], the key being in the dictionary
Lookup(dictionary, key) ==
    (CHOOSE e \in Range(dictionary) : e.key = key).value
Keys(dictionary) == {e.key : e \in Range(dictionary)}

\* FileTransfer.from_dict: a new transfer, its own referent, with the
\* attributes and the pattern of the dictionary.
FileTransfer_from_dict(d) ==
    [kind |-> "FileTransfer", referent |-> d.name, text |-> d.pattern]

\* from_serializable and list_from_serializable
from_serializable(element, tr_from_ids) ==
    IF element.kind = "int" /\ element.id \in Keys(tr_from_ids)
    THEN Lookup(tr_from_ids, element.id)
    ELSE element

list_from_serializable(list_to_convert, tr_from_ids) ==
    [i \in 1..Len(list_to_convert) |->
        from_serializable(list_to_convert[i], tr_from_ids)]

\* Job.from_dict and BarrierJob.from_dict; the object made for the id is
\* told apart from the others by it.
Job_from_dict(job_id, d, tr_from_ids) ==
    [kind |-> "Job", name |-> d.name, n |-> job_id + 1,
     command |-> list_from_serializable(d.command, tr_from_ids),
     referenced_input_files |->
         list_from_serializable(d.referenced_input_files, tr_from_ids),
     elements |-> <<>>]

BarrierJob_from_dict(job_id, d, tr_from_ids) ==
    [kind |-> "BarrierJob", name |-> d.name, n |-> job_id + 1,
     command |-> <<>>,
     referenced_input_files |->
         list_from_serializable(d.referenced_input_files, tr_from_ids),
     elements |-> <<>>]

\* Group.from_dict converts a group when all its elements are converted.
GroupConverts(d, group_from_ids, job_from_ids) ==
    \A i \in 1..Len(d.elements) :
        d.elements[i] \in Keys(job_from_ids) \cup Keys(group_from_ids)

\* Workflow.from_dict(d).  The jobs are entered in job_from_ids before the
\* barrier jobs, and the jobs list is the values of job_from_ids.  The
\* first group converted is removed from to_convert, which is the keys of
\* a dictionary: AttributeError.
Workflow_from_dict(d) ==
    LET tr_from_ids ==
            [i \in 1..Len(d.serialized_file_transfers) |->
               [key |-> d.serialized_file_transfers[i].key,
                value |-> FileTransfer_from_dict(d.serialized_file_transfers[i].value)]]
        job_from_ids ==
            [i \in 1..Len(d.serialized_jobs) |->
               [key |-> d.serialized_jobs[i].key,
                value |-> Job_from_dict(d.serialized_jobs[i].key,
                                        d.serialized_jobs[i].value, tr_from_ids)]]
            \o [i \in 1..Len(d.serialized_barriers) |->
               [key |-> d.serialized_barriers[i].key,
                value |-> BarrierJob_from_dict(d.serialized_barriers[i].key,
                                               d.serialized_barriers[i].value,
                                               tr_from_ids)]]
        jobs == [i \in 1..Len(job_from_ids) |-> job_from_ids[i].value]
        new_converted ==
            SelectSeq(d.serialized_groups,
                      LAMBDA e : GroupConverts(e.value, <<>>, job_from_ids))
    IN IF new_converted # <<>>
       THEN [NoWorkflow EXCEPT !.state = "AttributeError"]
       ELSE WorkflowInit(
                jobs,
                [i \in 1..Len(d.dependencies) |->
                    <<Lookup(job_from_ids, d.dependencies[i][1]),
                      Lookup(job_from_ids, d.dependencies[i][2])>>],
                [i \in 1..Len(d.root_group) |->
                    Lookup(job_from_ids, d.root_group[i])])

\* FileTransfer.attributs_equal, and the equality of two command elements
\* in Job._attributs_equal: paths by their attributes, the rest by ==.
element_attributs_equal(el, other) ==
    IF el.kind = "FileTransfer"
    THEN other.kind = "FileTransfer" /\ el.referent = other.referent
                                     /\ el.text = other.text
    ELSE el.kind = other.kind /\ el.text = other.text

list_attributs_equal(el_list, other_el_list) ==
    /\ Len(el_list) = Len(other_el_list)
    /\ \A i \in 1..Len(el_list) :
         element_attributs_equal(el_list[i], other_el_list[i])

\* Job.attributs_equal and Group.attributs_equal: other is of the class of
\* self, a barrier job being a job, and the attributes are equal.
RECURSIVE attributs_equal(_, _)
attributs_equal(self, other) ==
    IF self.kind = "Group"
    THEN /\ other.kind = "Group"
         /\ Len(self.elements) = Len(other.elements)
         /\ \A i \in 1..Len(self.elements) :
              attributs_equal(self.elements[i], other.elements[i])
         /\ self.name = other.name
    ELSE /\ other.kind \in (IF self.kind = "Job" THEN {"Job", "BarrierJob"}
                                                ELSE {"BarrierJob"})
         /\ list_attributs_equal(self.command, other.command)
         /\ list_attributs_equal(self.referenced_input_files,
                                 other.referenced_input_files)
         /\ self.name = other.name

\* Workflow.attributs_equal: jobs, dependencies, root group and groups are
\* equal position by position.
Workflow_attributs_equal(self, other) ==
    /\ Len(self.jobs) = Len(other.jobs)
    /\ \A i \in 1..Len(self.jobs) : attributs_equal(self.jobs[i], other.jobs[i])
    /\ Len(self.dependencies) = Len(other.dependencies)
    /\ \A i \in 1..Len(self.dependencies) :
         /\ attributs_equal(self.dependencies[i][1], other.dependencies[i][1])
         /\ attributs_equal(self.dependencies[i][2], other.dependencies[i][2])
    /\ Len(self.root_group) = Len(other.root_group)
    /\ \A i \in 1..Len(self.root_group) :
         attributs_equal(self.root_group[i], other.root_group[i])
    /\ Len(self.groups) = Len(other.groups)
    /\ \A i \in 1..Len(self.groups) :
         attributs_equal(self.groups[i], other.groups[i])

\* Everything of the facade, which building workflows leaves alone.
facadeVars == <<jobVars, transferVars, swept, today, last, cap>>

\* Workflow.from_dict(wf.to_dict()), kept as the copy of the workflow.
RoundTrip ==
    /\ wf.state = "built"
    /\ copy.state = "none"
    /\ copy' = IF Workflow_to_dict(wf).error # ""
               THEN [NoWorkflow EXCEPT !.state = "Exception"]
               ELSE Workflow_from_dict(Workflow_to_dict(wf))
    /\ UNCHANGED <<wf, eng, facadeVars>>

\* ------------------------------------------------------------------------
\* Workflows built by the client
\* ------------------------------------------------------------------------

ft == FileTransfer("ft")
\* Job a: a plain command, or one that reads the transfer it declares as
\* input, under its own path or under a path derived from it.
JobsA ==
    {Job(<<Str("x")>>, <<>>, "a"),
     Job(<<Str("cat"), ft>>, <<ft>>, "a"),
     Job(<<Str("cat"), PathAdd(ft, ".x")>>, <<ft>>, "a")}

job_b == Job(<<Str("x")>>, <<>>, "b")
job_c == Job(<<Str("x")>>, <<>>, "c")
barrier == BarrierJob("bar", 0)
group_G == Group(<<job_b>>, "G")
group_H == Group(<<job_c>>, "H")
group_GH == Group(<<job_b, group_H>>, "G")

\* The job lists and root groups workflows are built from, given job a:
\* three jobs, or two jobs and a barrier job, without group; and, job a
\* having a plain command, three jobs with a group or a group in a group.
Shapes(a) ==
    {[jobs |-> <<a, job_b, job_c>>, root_group |-> <<>>],
     [jobs |-> <<a, barrier, job_b>>, root_group |-> <<>>],
     [jobs |-> <<a, job_b, barrier>>, root_group |-> <<>>]}
    \cup (IF a.referenced_input_files # <<>>
          THEN {}
          ELSE {[jobs |-> <<a, job_b, job_c>>, root_group |-> <<a, group_G, job_c>>],
                [jobs |-> <<a, job_b, job_c>>, root_group |-> <<a, group_GH>>]})

\* What a dependency may name: the elements of the root group and the
\* groups below it, or any job when there is no root group.
Endpoints(jobs, root_group) ==
    IF root_group = <<>>
    THEN Range(jobs)
    ELSE Range(root_group) \cup Range(explore(GroupsIn(root_group), <<>>))

DepLists(E, n) ==
    UNION {[1..k -> {d \in E \X E : d[1] # d[2]}] : k \in 0..n}

Build(jobs, dependencies, root_group) ==
    /\ wf.state = "none"
    /\ wf' = WorkflowInit(jobs, dependencies, root_group)
    /\ UNCHANGED <<copy, eng, facadeVars>>

AddDependencies(dependencies) ==
    /\ wf.state = "built"
    /\ wf.calls < MaxCalls
    /\ copy.state = "none"
    /\ eng.state = "none"
    /\ wf' = add_dependencies(wf, dependencies)
    /\ UNCHANGED <<copy, eng, facadeVars>>

WfInit == FacadeInit /\ ClientInit /\ cap = [jobs |-> 0, transfers |-> 0]

WfNext ==
    \/ \E a \in JobsA :
         \E shape \in Shapes(a) :
           \E dependencies \in
                 DepLists(Endpoints(shape.jobs, shape.root_group), MaxDeps) :
             Build(shape.jobs, dependencies, shape.root_group)
    \/ \E dependencies \in
             DepLists(Endpoints(wf.jobs, wf.root_group) \cup Range(wf.groups),
                      MaxAdded) :
         AddDependencies(dependencies)
    \/ RoundTrip

SpecWf == WfInit /\ [][WfNext]_vars

\* ------------------------------------------------------------------------
\* The workflow engine: modelled from the specification
\* ------------------------------------------------------------------------
\* The engine knows the jobs of the submitted workflow by their position in
\* its jobs list, and records for each a status, the cause of a failure
\* and the id the DRM gave it (0 when it was never handed to the DRM).
\* That much is in the store.  The engine process is up or down, and has in
\* memory the jobs it polls the DRM for; crashes counts its crashes.

Terminal == {"DONE", "FAILED", "KILLED"}
InDrm == {"QUEUED_ACTIVE", "RUNNING"}

Active == eng.state = "active"
Positions == IF Active THEN 1..Len(wf.jobs) ELSE {}
\* No job is taken for a barrier job.
isNeverBarrier(i) == FALSE

isBarrier(i) == wf.jobs[i].kind = "BarrierJob"
Preds(i) ==
    {p \in 1..Len(wf.jobs) : <<wf.jobs[p], wf.jobs[i]>> \in Range(wf.dependencies)}

\* The topological pass: the jobs left when those that wait for none of
\* the others are taken away again and again.
RECURSIVE KahnLeft(_, _)
KahnLeft(nodes, dependencies) ==
    LET free == {x \in nodes :
                    \A d \in Range(dependencies) : d[2] = x => d[1] \notin nodes}
    IN IF free = {} THEN nodes ELSE KahnLeft(nodes \ free, dependencies)

\* submit_workflow: a cyclic workflow is refused, any other is recorded
\* with all its jobs pending.
SubmitWorkflow ==
    /\ wf.state = "built"
    /\ eng.state = "none"
    /\ eng' = IF KahnLeft(Range(wf.jobs), wf.dependencies) # {}
              THEN [state |-> "workflow_cyclic"]
              ELSE [state |-> "active",
                    status |-> [i \in 1..Len(wf.jobs) |-> "PENDING"],
                    cause |-> [i \in 1..Len(wf.jobs) |-> ""],
                    drm_id |-> [i \in 1..Len(wf.jobs) |-> 0],
                    next_id |-> 1,
                    up |-> TRUE, polled |-> {}, crashes |-> 0]
    /\ UNCHANGED <<wf, copy, facadeVars>>

EngineMoves(i, to, why, id) ==
    /\ eng' = [eng EXCEPT !.status[i] = to, !.cause[i] = why,
                          !.drm_id[i] = id,
                          !.next_id = IF id = eng.drm_id[i] THEN @ ELSE @ + 1,
                          !.polled = IF to \in InDrm THEN @ \cup {i} ELSE @ \ {i}]
    /\ UNCHANGED <<wf, copy, facadeVars>>

\* The job is due as soon as its predecessors have come to an end.
SubmissionDueAtEnd(i) ==
    /\ ~isBarrier(i)
    /\ eng.status[i] = "PENDING"
    /\ \A p \in Preds(i) : eng.status[p] \in Terminal

\* A job whose predecessors are all done is handed to the DRM, unless the
\* DRM already holds as many jobs as allowed.  Which of the ready jobs goes
\* first is left open here: see the order of submission below.
SubmissionDue(i) ==
    /\ ~isBarrier(i)
    /\ eng.status[i] = "PENDING"
    /\ \A p \in Preds(i) : eng.status[p] = "DONE"

EngineSubmit(i) ==
    /\ i \in Positions
    /\ SubmissionDue(i)
    /\ Cardinality({k \in Positions : eng.status[k] \in InDrm}) < DrmCap
    /\ EngineMoves(i, "QUEUED_ACTIVE", "", eng.next_id)

\* Only a failed predecessor counts, not a killed one.
FailureDueNotKilled(i) ==
    /\ eng.status[i] = "PENDING"
    /\ \E p \in Preds(i) : eng.status[p] = "FAILED"

\* A job or barrier one of whose predecessors failed or was killed fails.
FailureDue(i) ==
    /\ eng.status[i] = "PENDING"
    /\ \E p \in Preds(i) : eng.status[p] \in {"FAILED", "KILLED"}

UpstreamFailed(i) ==
    /\ i \in Positions
    /\ FailureDue(i)
    /\ EngineMoves(i, "FAILED", "upstream_failed", 0)

\* A barrier whose predecessors are all done is done.
BarrierDone(i) ==
    /\ i \in Positions
    /\ isBarrier(i)
    /\ eng.status[i] = "PENDING"
    /\ \A p \in Preds(i) : eng.status[p] = "DONE"
    /\ EngineMoves(i, "DONE", "", 0)

\* The DRM starts a job, ends it, and kills it when the user asks.
JobRuns(i) ==
    /\ i \in Positions
    /\ eng.status[i] = "QUEUED_ACTIVE"
    /\ EngineMoves(i, "RUNNING", "", eng.drm_id[i])

JobEnds(i, to) ==
    /\ i \in Positions
    /\ eng.status[i] = "RUNNING"
    /\ EngineMoves(i, to, IF to = "DONE" THEN "" ELSE "exit_status",
                   eng.drm_id[i])

JobKilled(i) ==
    /\ i \in Positions
    /\ eng.status[i] \in InDrm
    /\ EngineMoves(i, "KILLED", "killed", eng.drm_id[i])

EngineStep ==
    \E i \in Positions : EngineSubmit(i) \/ UpstreamFailed(i) \/ BarrierDone(i)

DrmStep ==
    \E i \in Positions : JobRuns(i) \/ JobEnds(i, "DONE") \/ JobEnds(i, "FAILED")

\* A workflow is built, submitted and run by the engine and the DRM.
EngineInit == FacadeInit /\ ClientInit /\ cap = [jobs |-> 0, transfers |-> 0]

EngineNext ==
    \/ \E shape \in Shapes(Job(<<Str("x")>>, <<>>, "a")) :
         \E dependencies \in
               DepLists(Endpoints(shape.jobs, shape.root_group), MaxDeps) :
           Build(shape.jobs, dependencies, shape.root_group)
    \/ SubmitWorkflow
    \/ EngineStep
    \/ DrmStep
    \/ \E i \in Positions : JobKilled(i)

SpecEngine == EngineInit /\ [][EngineNext]_vars

\* The engine's loop goes on, and the DRM starts and ends the jobs it holds.
SpecEngineFair == SpecEngine /\ WF_vars(EngineStep) /\ WF_vars(DrmStep)

\* The engine process crashes: what it has in memory is gone, the store
\* stays.
Crash ==
    /\ Active
    /\ eng.up
    /\ eng.crashes < MaxCrashes
    /\ eng' = [eng EXCEPT !.up = FALSE, !.polled = {}, !.crashes = @ + 1]
    /\ UNCHANGED <<wf, copy, facadeVars>>

\* Nothing is read back from the store.
NothingInFlight(e) == {}

\* The jobs the store has as not terminal with a DRM id.
InFlight(e) ==
    {i \in DOMAIN e.status : e.status[i] \notin Terminal /\ e.drm_id[i] # 0}

\* The engine restarts: it reads the jobs in flight back from the store
\* and goes on polling the DRM for them.
Restart ==
    /\ Active
    /\ ~eng.up
    /\ eng' = [eng EXCEPT !.up = TRUE, !.polled = InFlight(eng)]
    /\ UNCHANGED <<wf, copy, facadeVars>>

\* What the engine does while it is up: its loop, and the DRM's news of the
\* jobs it polls.
UpEngineStep == Active /\ eng.up /\ EngineStep

PollStep ==
    /\ Active /\ eng.up
    /\ \E i \in eng.polled : JobRuns(i) \/ JobEnds(i, "DONE") \/ JobEnds(i, "FAILED")

UpJobKilled == Active /\ eng.up /\ \E i \in eng.polled : JobKilled(i)

\* A workflow without group is built, submitted and run by an engine that
\* crashes and restarts.
CrashNext ==
    \/ \E shape \in {sh \in Shapes(Job(<<Str("x")>>, <<>>, "a")) : sh.root_group = <<>>} :
         \E dependencies \in
               DepLists(Endpoints(shape.jobs, shape.root_group), MaxDeps) :
           Build(shape.jobs, dependencies, shape.root_group)
    \/ SubmitWorkflow
    \/ UpEngineStep
    \/ PollStep
    \/ UpJobKilled
    \/ Crash
    \/ Restart

SpecCrash == EngineInit /\ [][CrashNext]_vars

\* The engine is restarted after a crash; up, its loop goes on and the DRM
\* starts and ends the jobs it holds.
SpecCrashFair ==
    SpecCrash /\ WF_vars(Restart) /\ WF_vars(UpEngineStep) /\ WF_vars(PollStep)

\* The order of submission.  The store has each job's priority (the job's
\* attribute) and the time it was entered; the job's id is its position.
Stamps == {0, 1}

\* Job i goes by its id alone.
BeforeById(e, i, k) == i < k

\* Job i goes before job k: higher priority, then earlier time, then id.
Before(e, i, k) ==
    \/ e.priority[i] > e.priority[k]
    \/ e.priority[i] = e.priority[k] /\ e.stamp[i] < e.stamp[k]
    \/ e.priority[i] = e.priority[k] /\ e.stamp[i] = e.stamp[k] /\ i < k

\* submit_workflow, the priorities and times recorded.
SubmitWorkflowOrdered ==
    /\ wf.state = "built"
    /\ eng.state = "none"
    /\ \E priority \in [1..Len(wf.jobs) -> 0..MaxPriority],
          stamp \in [1..Len(wf.jobs) -> Stamps] :
         eng' = IF KahnLeft(Range(wf.jobs), wf.dependencies) # {}
                THEN [state |-> "workflow_cyclic"]
                ELSE [state |-> "active",
                      status |-> [i \in 1..Len(wf.jobs) |-> "PENDING"],
                      cause |-> [i \in 1..Len(wf.jobs) |-> ""],
                      drm_id |-> [i \in 1..Len(wf.jobs) |-> 0],
                      next_id |-> 1,
                      up |-> TRUE, polled |-> {}, crashes |-> 0,
                      priority |-> priority, stamp |-> stamp]
    /\ UNCHANGED <<wf, copy, facadeVars>>

\* Of the ready jobs, the engine submits the one that goes before the others.
EngineSubmitFirst(i) ==
    /\ \A k \in Positions \ {i} : SubmissionDue(k) => Before(eng, i, k)
    /\ EngineSubmit(i)

\* A workflow of three jobs is built, submitted with priorities and run.
OrderNext ==
    \/ \E dependencies \in DepLists({Job(<<Str("x")>>, <<>>, "a"), job_b, job_c},
                                    OrderDeps) :
         Build(<<Job(<<Str("x")>>, <<>>, "a"), job_b, job_c>>, dependencies, <<>>)
    \/ SubmitWorkflowOrdered
    \/ \E i \in Positions : EngineSubmitFirst(i)
    \/ \E i \in Positions : UpstreamFailed(i)
    \/ DrmStep

SpecOrder == EngineInit /\ [][OrderNext]_vars

\* ------------------------------------------------------------------------
\* Claims on workflows and their dependencies
\* ------------------------------------------------------------------------

Successors(dependencies, S) ==
    {d[2] : d \in {e \in Range(dependencies) : e[1] \in S}}

\* What is reached from S by one dependency or more.
RECURSIVE ReachedFrom(_, _, _)
ReachedFrom(dependencies, S, seen) ==
    LET next == Successors(dependencies, S) \ seen
    IN IF next = {} THEN seen
       ELSE ReachedFrom(dependencies, next, seen \cup next)

IsDag(dependencies) ==
    \A d \in Range(dependencies) : d[1] \notin ReachedFrom(dependencies, {d[1]}, {})

\* C7: a workflow has been built only if its dependencies, the groups
\* replaced by their barriers, form a graph without cycle; one with a cycle
\* is rejected.
C7_BuiltOnlyIfDag ==
    wf.state = "built" => IsDag(wf.dependencies)

\* The barrier jobs of the workflow that stand for the group, on one side.
HubsFor(w, group, side) ==
    {j \in Range(w.jobs) : j.kind = "BarrierJob" /\ j.name = group.name \o side}

\* What has taken the place of the supplied dependency d in the workflow.
Rewritten(w, d) ==
    {e \in Range(w.dependencies) :
        /\ e[1] \in (IF isGroup(d[1]) THEN HubsFor(w, d[1], "_output") ELSE {d[1]})
        /\ e[2] \in (IF isGroup(d[2]) THEN HubsFor(w, d[2], "_input") ELSE {d[2]})}

\* C9: once the workflow is built, and once dependencies are added, every
\* dependency supplied is there with each group replaced by its barrier
\* (the output barrier of a group that comes first, the input barrier of a
\* group that comes second), a dependency between two jobs being there as
\* supplied, and no dependency of the workflow names a group.
C9_GroupEdgesRewritten ==
    wf.state = "built" =>
        /\ \A d \in Range(wf.supplied) : Rewritten(wf, d) # {}
        /\ \A e \in Range(wf.dependencies) : ~isGroup(e[1]) /\ ~isGroup(e[2])

\* The same of the workflow as built, before any dependency is added.
ConstructionRewritesGroupEdges ==
    wf.calls = 0 => C9_GroupEdgesRewritten

\* C8: the workflow made from the dictionary of a workflow has the
\* attributes of that workflow: Workflow.from_dict(w.to_dict()) is made
\* and w.attributs_equal finds it equal, whatever the jobs, dependencies
\* and groups of w, wherever its barrier jobs are in the jobs list, and
\* with paths derived from other paths in the commands.
C8_RoundTrip ==
    copy.state # "none" =>
        copy.state = "built" /\ Workflow_attributs_equal(wf, copy)

\* ------------------------------------------------------------------------
\* Claims on the run of a workflow
\* ------------------------------------------------------------------------

\* C4: when a job is handed to the DRM, every predecessor of it in the
\* dependencies of the workflow (groups replaced by their barriers) is
\* DONE: none is pending, in the DRM, FAILED or KILLED.
C4_TopologicalSubmission ==
    [][ (Active /\ eng'.state = "active") =>
          \A i \in Positions :
              (eng.drm_id[i] = 0 /\ eng'.drm_id[i] # 0)
              => \A p \in Preds(i) : eng.status[p] = "DONE" ]_vars

\* C4 witness: a job that has predecessors has been handed to the DRM.
C4_Witness ==
    Active /\ \E i \in Positions : eng.drm_id[i] # 0 /\ Preds(i) # {}

HasFailedPred(i) ==
    /\ Active /\ i \in Positions
    /\ \E p \in Preds(i) : eng.status[p] \in {"FAILED", "KILLED"}

IsUpstreamFailed(i) ==
    /\ Active /\ i \in Positions
    /\ eng.status[i] = "FAILED" /\ eng.cause[i] = "upstream_failed"

\* The jobs that i waits for, directly or not.
Ancestors(i) ==
    {p \in Positions : wf.jobs[i] \in ReachedFrom(wf.dependencies, {wf.jobs[p]}, {})}

\* The job has come to its end: failed for its predecessor if one failed
\* or was killed, failed that way only if a job it waits for failed or was
\* killed, and through the DRM if all the jobs it waits for are done.
EndedAsDue(i) ==
    /\ eng.status[i] \in Terminal
    /\ HasFailedPred(i) => IsUpstreamFailed(i)
    /\ IsUpstreamFailed(i)
       => \E p \in Ancestors(i) : eng.status[p] \in {"FAILED", "KILLED"}
    /\ (~isBarrier(i) /\ \A p \in Ancestors(i) : eng.status[p] = "DONE")
       => eng.drm_id[i] # 0

\* C5: once a predecessor of a job is FAILED or KILLED, which it stays, the
\* job is never handed to the DRM and gets to FAILED with the cause
\* upstream_failed; and every job comes to an end, through the DRM when
\* none of the jobs it waits for failed or was killed.
C5_UpstreamFailure ==
    /\ [](\A i \in Positions : HasFailedPred(i) => eng.drm_id[i] = 0)
    /\ [][Active => \A i \in Positions :
                       eng.status[i] \in Terminal
                       => eng'.status[i] = eng.status[i]]_vars
    /\ Active ~> (Active /\ \A i \in Positions : EndedAsDue(i))

\* C5 witness: a job has failed for its predecessor while a job that does
\* not wait for that predecessor is done.
C5_Witness ==
    \E i \in Positions, k \in Positions :
        /\ IsUpstreamFailed(i)
        /\ ~isBarrier(k) /\ eng.status[k] = "DONE"
        /\ \E p \in Preds(i) : eng.status[p] = "FAILED" /\ p \notin Ancestors(k) \cup {k}

\* The jobs a dependency endpoint stands for: the jobs of a group and of
\* its sub-groups, or the job itself.
RECURSIVE Members(_)
Members(x) ==
    IF isGroup(x)
    THEN UNION {Members(x.elements[k]) : k \in 1..Len(x.elements)}
    ELSE {x}

\* The predecessors of the job when each supplied dependency that names a
\* group is written as the dependencies between the jobs it stands for.
DirectPreds(i) ==
    {p \in Positions :
        \E d \in Range(wf.supplied) :
            wf.jobs[p] \in Members(d[1]) /\ wf.jobs[i] \in Members(d[2])}

AllTerminal == Active /\ \A i \in Positions : eng.status[i] \in Terminal

\* C10: when the workflow has come to its end, every job that is not a
\* barrier made for a group has the status it has with the direct
\* job-to-job dependencies: it went through the DRM, which gave it its
\* status, when all its direct predecessors are DONE, and it is FAILED
\* with the cause upstream_failed, never handed to the DRM, otherwise.
C10_BarrierTransparency ==
    AllTerminal =>
        \A i \in Positions :
            wf.jobs[i] \in Range(wf.supplied_jobs) =>
                IF \A p \in DirectPreds(i) : eng.status[p] = "DONE"
                THEN IF isBarrier(i) THEN eng.status[i] = "DONE"
                     ELSE eng.drm_id[i] # 0 /\ eng.cause[i] # "upstream_failed"
                ELSE IsUpstreamFailed(i) /\ eng.drm_id[i] = 0

\* C10 witness: the workflow, with a dependency on a group, has come to
\* its end, a job having failed for a predecessor it has through the group.
C10_Witness ==
    /\ AllTerminal
    /\ \E d \in Range(wf.supplied) : isGroup(d[1]) \/ isGroup(d[2])
    /\ \E i \in Positions :
         /\ wf.jobs[i] \in Range(wf.supplied_jobs)
         /\ IsUpstreamFailed(i)
         /\ \A p \in Preds(i) : wf.jobs[p] \notin Range(wf.supplied_jobs)

\* C11: the engine crashing and restarting at any point, a job that has a
\* DRM id keeps it, the DRM has been handed one job for each id recorded
\* and no more, and after a crash every job with a DRM id comes to a
\* terminal status.
C11_CrashRecovery ==
    /\ [][Active => \A i \in Positions :
                       eng.drm_id[i] # 0 => eng'.drm_id[i] = eng.drm_id[i]]_vars
    /\ [](Active => eng.next_id - 1
                      = Cardinality({i \in Positions : eng.drm_id[i] # 0}))
    /\ (Active /\ ~eng.up)
          ~> (Active /\ \A i \in Positions :
                           eng.drm_id[i] # 0 => eng.status[i] \in Terminal)

\* C11 witness: the engine has crashed with a job in the DRM and restarted,
\* and that job has ended in the DRM.
C11_Witness ==
    /\ Active /\ eng.up /\ eng.crashes > 0
    /\ \E i \in Positions :
         eng.drm_id[i] # 0 /\ eng.status[i] = "DONE" /\ Preds(i) # {}

\* The jobs of the submitted workflow that have an empty command.
EmptyCommand == {i \in Positions : wf.jobs[i].command = <<>>}

\* C12: a job with an empty command never has a DRM id and is never in
\* the DRM; it is DONE only if all its predecessors are DONE, FAILED only
\* with the cause upstream_failed and a predecessor FAILED or KILLED; and
\* once a predecessor of it is FAILED or KILLED it gets to FAILED, without
\* any other status in between.
C12_BarrierComputed ==
    /\ [](\A i \in EmptyCommand :
            /\ eng.drm_id[i] = 0
            /\ eng.status[i] \in {"PENDING", "DONE", "FAILED"}
            /\ eng.status[i] = "DONE"
               => \A p \in Preds(i) : eng.status[p] = "DONE"
            /\ eng.status[i] = "FAILED"
               => IsUpstreamFailed(i) /\ HasFailedPred(i)
            /\ HasFailedPred(i) => eng.status[i] \in {"PENDING", "FAILED"})
    /\ <>[](\A i \in EmptyCommand : HasFailedPred(i) => eng.status[i] = "FAILED")

\* C12 witness: a barrier job is FAILED, a predecessor of it having been
\* killed, and another barrier job is DONE after its predecessors.
C12_Witness ==
    \E i \in EmptyCommand, k \in EmptyCommand :
        /\ eng.status[i] = "FAILED"
        /\ \E p \in Preds(i) : eng.status[p] = "KILLED"
        /\ eng.status[k] = "DONE" /\ Preds(k) # {}

\* ------------------------------------------------------------------------
\* Claims on the submission of jobs
\* ------------------------------------------------------------------------

SubmitOps == {"submit", "customSubmit", "submitWithTransfer"}

\* C13: submit, customSubmit and submitWithTransfer with a command that is
\* not empty make one call of the DRMS layer, the submission of that name,
\* and return the job id it gave, which is then a job of the caller.
C13_SubmitForwardsOnce ==
    (last.op \in SubmitOps /\ last.tgt > 0)
    => /\ last.res = "id"
       /\ last.calls = <<"drmaa." \o last.op>>
       /\ last.val = nextJob - 1
       /\ isUserJob(last.val, last.user)

\* C14: submit, customSubmit and submitWithTransfer with an empty command
\* raise JobSchedulerError, call nothing of the DRMS layer and leave the
\* jobs, their owners and statuses, and so each user's job list, as they
\* were.
C14_EmptyCommandRefused ==
    [][ (last'.op \in SubmitOps /\ last'.tgt = 0)
        => /\ last'.res = "JobSchedulerError"
           /\ last'.calls = <<>>
           /\ UNCHANGED jobVars
           /\ \A u \in Users : getJobs(u)' = getJobs(u) ]_vars

\* C14 witness: a job being there, a submission with an empty command has
\* been refused.
C14_Witness ==
    /\ last.op = "submitWithTransfer" /\ last.tgt = 0
    /\ last.res = "JobSchedulerError"
    /\ getJobs(last.user) # {}

\* ------------------------------------------------------------------------
\* Claims on kill and dispose
\* ------------------------------------------------------------------------

\* The call is by the owner of the job it names.
ByOwner(c, op) == c.op = op /\ isUserJob(c.tgt, c.user)

C16_DisposeKillsFirst ==
    /\ inDrm \subseteq DOMAIN jobOwner
    /\ inDrm = {j \in DOMAIN jobStatus : jobStatus[j] \in ActiveStatuses}

\* C16 witness: the owner of a job has just disposed of it: the job has
\* no record any more and nothing is alive in the DRM.
C16_Witness ==
    /\ last.op = "dispose" /\ last.calls = <<"isUserJob", "drmaa.dispose">>
    /\ last.tgt \in 1..(nextJob - 1) \ DOMAIN jobOwner
    /\ inDrm = {}

\* ------------------------------------------------------------------------
\* Claims on transfers
\* ------------------------------------------------------------------------

\* The jobs, submitted and not disposed, that declared the transfer.
DeclaredBy(p) == {j \in DOMAIN declared : p \in declared[j]}

\* The transfer is there, expired, and no job declares it.
Stale(p) == p \in DOMAIN trOwner /\ trExp[p] <= today /\ DeclaredBy(p) = {}

Seen(c) == [res |-> c.res, val |-> c.val, calls |-> c.calls]

\* Everything but the record of the last call.
allButLast == <<jobVars, transferVars, swept, today, cap, wfVars>>

\* C18: status, exitInformation, stdoutReadLine, dispose, kill, stop,
\* restart, wait, readline, writeLine, cancelTransfer and
\* getTransferInformation called on a job or transfer of another user
\* change nothing, and return or raise what the same call by the same user
\* returns or raises, in the same state, on an id that is no job or no
\* transfer, having made the same calls.
C18_OwnershipNonLeak ==
    [][ /\ \A op \in OpsOnJob, u \in Users, j \in DOMAIN jobOwner :
             (jobOwner[j] # u /\ GatedOnJob(op, u, j))
             => /\ UNCHANGED allButLast
                /\ \E seen \in {Seen(last')} :
                     \E none \in JobTargets \ DOMAIN jobOwner :
                        ENABLED (/\ GatedOnJob(op, u, none)
                                 /\ Seen(last') = seen
                                 /\ UNCHANGED allButLast)
        /\ \A op \in OpsOnTransfer, u \in Users, p \in DOMAIN trOwner :
             (trOwner[p] # u /\ GatedOnTransfer(op, u, p))
             => /\ UNCHANGED allButLast
                /\ \E seen \in {Seen(last')} :
                     \E none \in PathTargets \ DOMAIN trOwner :
                        ENABLED (/\ GatedOnTransfer(op, u, none)
                                 /\ Seen(last') = seen
                                 /\ UNCHANGED allButLast) ]_vars

\* C18 witness: a user has called kill on the job of another user, or
\* readline on the written transfer of another user.
C18_Witness ==
    /\ last.op \in {"kill", "readline"}
    /\ IF last.op = "kill"
       THEN last.tgt \in DOMAIN jobOwner /\ jobOwner[last.tgt] # last.user
       ELSE /\ last.tgt \in DOMAIN trOwner /\ trOwner[last.tgt] # last.user
            /\ last.tgt \in DOMAIN files

\* ------------------------------------------------------------------------
\* Claims on the order of submission
\* ------------------------------------------------------------------------

\* The jobs ready to be submitted.
Ready == {i \in Positions : SubmissionDue(i)}

\* C19: when a job is handed to the DRM, every other job that was ready
\* then has a lower priority, or the same priority and a later time, or
\* the same priority and time and a greater id; and at any time at most
\* one job can be the next one handed to the DRM.
C19_SubmissionOrder ==
    /\ [][ (Active /\ eng'.state = "active") =>
             \A i \in Positions :
                 (eng.drm_id[i] = 0 /\ eng'.drm_id[i] # 0)
                 => \A k \in Ready \ {i} :
                      \/ eng.priority[k] < eng.priority[i]
                      \/ /\ eng.priority[k] = eng.priority[i]
                         /\ eng.stamp[k] > eng.stamp[i]
                      \/ /\ eng.priority[k] = eng.priority[i]
                         /\ eng.stamp[k] = eng.stamp[i]
                         /\ k > i ]_vars
    /\ [](\A i \in Positions, k \in Positions :
            (ENABLED EngineSubmitFirst(i) /\ ENABLED EngineSubmitFirst(k))
            => i = k)

\* C19 witness: of two jobs ready together, the one of higher priority,
\* which has the greater id and the later time, is in the DRM and the other
\* is waiting.
C19_Witness ==
    \E i \in Positions, k \in Ready :
        /\ eng.status[i] = "QUEUED_ACTIVE" /\ eng.drm_id[i] = 1
        /\ Preds(i) = {}
        /\ eng.priority[i] > eng.priority[k]
        /\ i > k /\ eng.stamp[i] > eng.stamp[k]

\* ------------------------------------------------------------------------
\* Claims on the writing of transfers
\* ------------------------------------------------------------------------

\* C20: each writeLine by the owner of a transfer adds its line at the
\* end of the transfer's file and leaves the lines already there, and the
\* files of the other transfers, as they were, whichever transfer the
\* owner wrote to before.
C20_WriteLineAppends ==
    [][ (last'.op = "writeLine" /\ last'.res = None)
        => /\ last'.tgt \in DOMAIN files'
           /\ \A p \in DOMAIN files :
                IF p = last'.tgt
                THEN /\ Len(files'[p]) = Len(files[p]) + 1
                     /\ SubSeq(files'[p], 1, Len(files[p])) = files[p]
                ELSE p \in DOMAIN files' /\ files'[p] = files[p] ]_vars

\* ------------------------------------------------------------------------
\* Jobs made by the client, and made again from their dictionary
\* ------------------------------------------------------------------------

ft2 == FileTransfer("ft2")

\* The commands and the referenced input files jobs are made with: no
\* list is checked against the other by Job.__init__ or Job.from_dict.
MaxCommand == 2
CommandElements == {Str("cat"), ft, ft2, PathAdd(ft, ".x")}
Commands == UNION {[1..k -> CommandElements] : k \in 1..MaxCommand}
Referenced == {<<>>, <<ft>>, <<ft2>>, <<ft, ft2>>}

JobNext ==
    \/ \E command \in Commands, referenced_input_files \in Referenced :
         Build(<<Job(command, referenced_input_files, "a")>>, <<>>, <<>>)
    \/ RoundTrip

SpecJob == WfInit /\ [][JobNext]_vars

\* The transfers of the command of the job are among its referenced files.
CommandTransfersReferenced(job) ==
    \A i \in 1..Len(job.command) :
        job.command[i].kind = "FileTransfer" =>
            \E k \in 1..Len(job.referenced_input_files) :
                job.referenced_input_files[k].referent = job.command[i].referent

\* C21: every job made, by the constructor or from its dictionary, has
\* each transfer of its command among its referenced files.
C21_CommandTransfersReferenced ==
    \A w \in {wf, copy} :
        w.state = "built" => \A job \in Range(w.jobs) : CommandTransfersReferenced(job)

\* ------------------------------------------------------------------------
\* Workflows with groups: dependencies added, conversion run again
\* ------------------------------------------------------------------------

MaxSupplied == 2

job_a == Job(<<Str("x")>>, <<>>, "a")
GroupShapes == {shape \in Shapes(job_a) : shape.root_group # <<>>}

\* add_dependencies with a list that is not empty, as long as no more than
\* MaxSupplied dependencies have been given to the workflow.
AddMore(dependencies) ==
    /\ wf.state = "built"
    /\ copy.state = "none"
    /\ dependencies # <<>>
    /\ Len(wf.supplied) + Len(dependencies) <= MaxSupplied
    /\ wf' = add_dependencies(wf, dependencies)
    /\ UNCHANGED <<copy, eng, facadeVars>>

\* __convert_group_dependencies() run again on the workflow: the workflow
\* after the call is kept as the copy.
Reconvert ==
    /\ wf.state = "built"
    /\ copy.state = "none"
    /\ copy' = convert_group_dependencies(wf, wf.dependencies, FALSE)
    /\ UNCHANGED <<wf, eng, facadeVars>>

\* Workflow(w.jobs, w.dependencies, w.root_group): the lists are those of
\* w, the barrier jobs made are new objects.
WorkflowAgain(w) ==
    convert_group_dependencies(
        [w EXCEPT !.groups = explore(GroupsIn(w.root_group), <<>>),
                  !.supplied = w.dependencies, !.supplied_jobs = w.jobs,
                  !.calls = 0],
        w.dependencies, FALSE)

Reconstruct ==
    /\ wf.state = "built"
    /\ copy.state = "none"
    /\ copy' = WorkflowAgain(wf)
    /\ UNCHANGED <<wf, eng, facadeVars>>

GroupsNext ==
    \/ \E shape \in GroupShapes :
         \E dependencies \in
               DepLists(Endpoints(shape.jobs, shape.root_group), MaxSupplied) :
           Build(shape.jobs, dependencies, shape.root_group)
    \/ \E dependencies \in
             DepLists(Endpoints(wf.jobs, wf.root_group) \cup Range(wf.groups),
                      MaxSupplied) :
         AddMore(dependencies)
    \/ Reconvert
    \/ Reconstruct

SpecGroups == WfInit /\ [][GroupsNext]_vars

NoGroupEdge(w) ==
    \A e \in Range(w.dependencies) : ~isGroup(e[1]) /\ ~isGroup(e[2])

\* C22: the conversion run again on a workflow as constructed, or on a
\* workflow whose added dependencies have been converted and name no group,
\* and the construction of a new workflow from its jobs, dependencies and
\* root group, leave the jobs and the dependencies as they are: no barrier
\* job and no dependency is added or removed.
C22_RewriteIdempotent ==
    (copy.state = "built" /\ (wf.calls = 0 \/ NoGroupEdge(wf)))
    => copy.jobs = wf.jobs /\ copy.dependencies = wf.dependencies

\* C22 witness: the conversion has been run again on a workflow that had
\* group dependencies converted at construction and by add_dependencies.
C22_Witness ==
    /\ copy.state = "built"
    /\ wf.calls > 0
    /\ wf.made >= 4
    /\ \E d \in Range(wf.supplied) : isGroup(d[1]) \/ isGroup(d[2])

\* ------------------------------------------------------------------------
\* Workflow.add_workflow
\* ------------------------------------------------------------------------

\* add_workflow(workflow, as_group) on the workflow w, as_group being ""
\* when not given.  The jobs and the dependencies of the other workflow
\* are added in place; the root group of w is its jobs list itself when w
\* was made without root group, and what is added to the one is added to
\* the other.
add_workflow(w, workflow, as_group) ==
    LET jobs == w.jobs \o workflow.jobs
        root_group == IF w.root_is_jobs THEN jobs ELSE w.root_group
        group == Group(workflow.root_group, as_group)
        new_root_group == IF as_group # ""
                          THEN Append(root_group, group)
                          ELSE root_group \o workflow.root_group
    IN [w EXCEPT !.jobs = IF w.root_is_jobs THEN new_root_group ELSE jobs,
                 !.dependencies = @ \o workflow.dependencies,
                 !.root_group = new_root_group,
                 !.groups = IF as_group # ""
                            THEN @ \o <<group>> \o workflow.groups
                            ELSE @ \o workflow.groups,
                 !.calls = @ + 1]

\* The other workflow, of other jobs, is kept as the copy.
job_d == Job(<<Str("x")>>, <<>>, "d")
job_e == Job(<<Str("x")>>, <<>>, "e")
group_K == Group(<<job_e>>, "K")
AddDeps == 1
OtherShapes ==
    {[jobs |-> <<job_d, job_e>>, root_group |-> <<>>],
     [jobs |-> <<job_d, job_e>>, root_group |-> <<job_d, job_e>>],
     [jobs |-> <<job_d, job_e>>, root_group |-> <<job_d, group_K>>]}

BuildOther(jobs, dependencies, root_group) ==
    /\ copy.state = "none"
    /\ copy' = WorkflowInit(jobs, dependencies, root_group)
    /\ UNCHANGED <<wf, eng, facadeVars>>

AddWorkflow(as_group) ==
    /\ wf.state = "built"
    /\ copy.state = "built"
    /\ wf.calls < MaxCalls
    /\ wf' = add_workflow(wf, copy, as_group)
    /\ UNCHANGED <<copy, eng, facadeVars>>

AddNext ==
    \/ \E shape \in Shapes(job_a) :
         \E dependencies \in
               DepLists(Endpoints(shape.jobs, shape.root_group), AddDeps) :
           Build(shape.jobs, dependencies, shape.root_group)
    \/ \E shape \in OtherShapes :
         \E dependencies \in
               DepLists(Endpoints(shape.jobs, shape.root_group), AddDeps) :
           BuildOther(shape.jobs, dependencies, shape.root_group)
    \/ \E as_group \in {"", "V"} : AddWorkflow(as_group)

SpecAdd == WfInit /\ [][AddNext]_vars

\* C23: add_workflow leaves in the jobs of the workflow its former jobs
\* followed by the jobs of the workflow added, each once and none a group,
\* and in its dependencies the former ones followed by those of the
\* workflow added, with and without as_group and whether or not the
\* workflows were made with a root group.
C23_AddWorkflowConcatenates ==
    [][ (wf.state = "built" /\ copy.state = "built" /\ wf'.calls = wf.calls + 1)
        => /\ wf'.jobs = wf.jobs \o copy.jobs
           /\ \A i, k \in 1..Len(wf'.jobs) : wf'.jobs[i] = wf'.jobs[k] => i = k
           /\ \A i \in 1..Len(wf'.jobs) : ~isGroup(wf'.jobs[i])
           /\ wf'.dependencies = wf.dependencies \o copy.dependencies ]_vars

\* ------------------------------------------------------------------------
\* Transfers registered with a disposal timeout in hours
\* ------------------------------------------------------------------------

ExpireTransfers == 2
\* disposal_timeout values that are, and are not, a number of days.
HourTimeouts == {0, 12, 24, 36}

ExpireInit ==
    FacadeInit /\ ClientInit /\ cap = [jobs |-> 0, transfers |-> ExpireTransfers]

ExpireNext ==
    \/ \E u \in Users, h \in HourTimeouts : registerTransfer(u, h)
    \/ Tick
    \/ \E p \in DOMAIN trOwner : SweepTransfer(p)

SpecExpire == ExpireInit /\ [][ExpireNext]_vars

\* C24: the expiration recorded by registerTransfer(path, h) is h hours
\* after the registration or later, whatever h: counting the hours from
\* the beginning of the first day, the day the transfer may be disposed
\* of begins no earlier than h hours after the day of the registration
\* began (the registration being made, at the earliest, as the day begins).
C24_ExpirationAfterTimeout ==
    [][ \A u \in Users, h \in HourTimeouts :
          registerTransfer(u, h) => 24 * trExp'[nextPath] >= 24 * today + h ]_vars

\* ------------------------------------------------------------------------
\* Claims on the barrier jobs of groups
\* ------------------------------------------------------------------------

\* The groups that have been given as an end of a dependency.
GroupEndpoints(w) ==
    {d[i] : d \in Range(w.supplied), i \in 1..2} \cap Range(w.groups)

\* C25: once the workflow is constructed, and after each add_dependencies,
\* each group given as an end of a dependency has one input barrier and one
\* output barrier among the jobs of the workflow, and every dependency
\* from or to a barrier of the group is from or to that one.
C25_OneBarrierPair ==
    wf.state = "built" =>
        \A group \in GroupEndpoints(wf) :
            /\ Cardinality(HubsFor(wf, group, "_input")) = 1
            /\ Cardinality(HubsFor(wf, group, "_output")) = 1
            /\ \A e \in Range(wf.dependencies), i \in 1..2 :
                 (e[i].kind = "BarrierJob"
                  /\ e[i].name \in {group.name \o "_input", group.name \o "_output"})
                 => e[i] \in HubsFor(wf, group, "_input") \cup HubsFor(wf, group, "_output")

\* The same of the workflow as constructed, before any dependency is added.
ConstructionMakesOnePair ==
    wf.calls = 0 => C25_OneBarrierPair

\* The dependencies given to the call that made the workflow v of w: to
\* the constructor when there was no workflow, to add_dependencies after.
Given(w, v) == SubSeq(v.supplied, Len(w.supplied) + 1, Len(v.supplied))

\* The group and the groups below it, and the jobs anywhere in the group.
RECURSIVE Nested(_)
Nested(group) ==
    {group} \cup UNION {Nested(x) : x \in {y \in Range(group.elements) : isGroup(y)}}
JobsIn(group) ==
    UNION {{x \in Range(h.elements) : ~isGroup(x)} : h \in Nested(group)}

\* The groups a conversion of these dependencies expands.
Expanded(dependencies) ==
    UNION {Nested(x) : x \in {y \in {d[i] : d \in Range(dependencies), i \in 1..2} :
                                 isGroup(y)}}

\* The barrier jobs of v, named after the group, that w had not.
NewHubs(w, v, group, side) == {j \in HubsFor(v, group, side) : j.n > w.made}

\* A call has converted dependencies of the workflow.
Converts == wf'.state = "built" /\ wf' # wf

\* C26: when the constructor or add_dependencies has converted
\* dependencies, each group it expanded has an input barrier named
\* <name>_input and an output barrier named <name>_output made by the
\* call, and every job that is an element of the group has a dependency
\* from that input barrier and a dependency to that output barrier.
C26_IntraGroupEdges ==
    [][ Converts =>
          \A group \in Expanded(Given(wf, wf')) :
              /\ Cardinality(NewHubs(wf, wf', group, "_input")) = 1
              /\ Cardinality(NewHubs(wf, wf', group, "_output")) = 1
              /\ \A x \in Range(group.elements) :
                   ~isGroup(x) =>
                     /\ \A h \in NewHubs(wf, wf', group, "_input") :
                          <<h, x>> \in Range(wf'.dependencies)
                     /\ \A h \in NewHubs(wf, wf', group, "_output") :
                          <<x, h>> \in Range(wf'.dependencies) ]_vars

\* C26 witness: add_dependencies has expanded a group that has a job, after
\* the constructor had expanded it: the job follows the input barriers and
\* precedes the output barriers of both calls.
C26_Witness ==
    /\ wf.state = "built" /\ wf.calls > 0
    /\ \E group \in GroupEndpoints(wf) :
         /\ Cardinality(HubsFor(wf, group, "_input")) = 2
         /\ \E x \in Range(group.elements) :
              /\ ~isGroup(x)
              /\ \A h \in HubsFor(wf, group, "_input") : <<h, x>> \in Range(wf.dependencies)
              /\ \A h \in HubsFor(wf, group, "_output") : <<x, h>> \in Range(wf.dependencies)

C28_EndpointsAreJobs ==
    wf.state = "built" =>
        /\ \A e \in Range(wf.dependencies) :
             e[1] \in Range(wf.jobs) /\ e[2] \in Range(wf.jobs)
        /\ Workflow_to_dict(wf).error # "Unknown jobs in dependencies."

\* ------------------------------------------------------------------------
\* Jobs that share transfers, to a dictionary and back
\* ------------------------------------------------------------------------

\* Job a with any command and the referenced files that declare its
\* transfers; job b with a transfer, a path derived from it, another
\* transfer or none; job c alone or in a group.
ShareJobsA ==
    {job \in {Job(command, referenced_input_files, "a") :
                  command \in Commands, referenced_input_files \in Referenced} :
        CommandTransfersReferenced(job)}
ShareJobsB ==
    {job_b, Job(<<ft>>, <<ft>>, "b"), Job(<<PathAdd(ft, ".x")>>, <<ft>>, "b"),
     Job(<<ft2>>, <<ft2>>, "b")}

ShareNext ==
    \/ \E a \in ShareJobsA, b \in ShareJobsB :
         \E root_group \in {<<>>, <<a, b, group_H>>} :
           Build(<<a, b, job_c>>, <<>>, root_group)
    \/ RoundTrip

SpecShare == WfInit /\ [][ShareNext]_vars

\* Where the jobs of the workflow name a transfer: the job, the list and
\* the place in the list; what is there, and its id in the dictionary.
PathPositions(w) ==
    {p \in (1..Len(w.jobs)) \X {"command", "referenced_input_files"} \X (1..(MaxCommand + 1)) :
        /\ p[3] <= Len(w.jobs[p[1]][p[2]])
        /\ w.jobs[p[1]][p[2]][p[3]].kind = "FileTransfer"}
PathAt(w, p) == w.jobs[p[1]][p[2]][p[3]]
IdAt(d, p) == Lookup(d.serialized_jobs, p[1] - 1)[p[2]][p[3]].id

MaxElements == 1

\* The ids a serialized group may give as elements: the id of a job, the
\* ids of the groups, and an id of nothing.
KnownJobs == <<[key |-> 0, value |-> job_a]>>
GroupKeys == <<1, 2>>
ElementIds == {0, 1, 2, 9}
ElementLists == UNION {[1..k -> ElementIds] : k \in 0..MaxElements}

\* The serialized_groups dictionaries: none, one or two groups.
SerializedGroups ==
    UNION {{[i \in 1..k |-> [key |-> GroupKeys[i],
                             value |-> [name |-> "G", elements |-> e[i]]]] :
               e \in [1..k -> ElementLists]} : k \in 0..Len(GroupKeys)}

\* Group.from_dict, for a group whose elements are all known.
Group_from_dict(d, group_from_ids, job_from_ids) ==
    Group([i \in 1..Len(d.elements) |->
              IF d.elements[i] \in Keys(job_from_ids)
              THEN Lookup(job_from_ids, d.elements[i])
              ELSE Lookup(group_from_ids, d.elements[i])],
          d.name)

\* dictionary[key] = value
DictSet(dictionary, key, value) ==
    IF key \in Keys(dictionary)
    THEN [i \in 1..Len(dictionary) |->
             IF dictionary[i].key = key THEN [key |-> key, value |-> value]
             ELSE dictionary[i]]
    ELSE Append(dictionary, [key |-> key, value |-> value])

\* for group_id in to_convert: the groups converted are entered in
\* group_from_ids at once, and listed in new_converted.
RECURSIVE convert_groups(_, _, _, _)
convert_groups(serialized_groups, to_convert, i, acc) ==
    IF i > Len(to_convert)
    THEN acc
    ELSE LET d == Lookup(serialized_groups, to_convert[i])
         IN convert_groups(serialized_groups, to_convert, i + 1,
                IF GroupConverts(d, acc.group_from_ids, KnownJobs)
                THEN [group_from_ids |->
                          DictSet(acc.group_from_ids, to_convert[i],
                                  Group_from_dict(d, acc.group_from_ids, KnownJobs)),
                      new_converted |-> Append(acc.new_converted, to_convert[i])]
                ELSE acc)

\* The ids stay in to_convert.
remove_nothing(to_convert, new_converted) == to_convert

\* for group_id in new_converted: to_convert.remove(group_id)
remove_each(to_convert, new_converted) ==
    SelectSeq(to_convert, LAMBDA group_id : group_id \notin Range(new_converted))

\* from_dict comes to the loop: to_convert is the keys of the dictionary,
\* a list under Python 2 and a view of the dictionary under Python 3.
StartGroups(serialized_groups, keys) ==
    /\ copy.state = "none"
    /\ copy' = [state |-> "groups", keys |-> keys,
                serialized_groups |-> serialized_groups,
                to_convert |-> [i \in 1..Len(serialized_groups) |->
                                   serialized_groups[i].key],
                group_from_ids |-> <<>>]
    /\ UNCHANGED <<wf, eng, facadeVars>>

\* One pass of the while loop.  A view has no remove(): the first id to
\* remove raises AttributeError.
Pass ==
    /\ copy.state = "groups"
    /\ LET acc == convert_groups(copy.serialized_groups, copy.to_convert, 1,
                                 [group_from_ids |-> copy.group_from_ids,
                                  new_converted |-> <<>>])
           to_convert == remove_each(copy.to_convert, acc.new_converted)
       IN copy' = IF acc.new_converted # <<>> /\ copy.keys = "view"
                  THEN [copy EXCEPT !.state = "AttributeError",
                                    !.group_from_ids = acc.group_from_ids]
                  ELSE [copy EXCEPT !.state =
                                        IF to_convert = <<>> \/ acc.new_converted = <<>>
                                        THEN "done" ELSE "groups",
                                    !.to_convert = to_convert,
                                    !.group_from_ids = acc.group_from_ids]
    /\ UNCHANGED <<wf, eng, facadeVars>>

LoopNext ==
    \/ \E serialized_groups \in SerializedGroups, keys \in {"list", "view"} :
         StartGroups(serialized_groups, keys)
    \/ Pass

SpecLoop == WfInit /\ [][LoopNext]_vars
\* from_dict runs on: a pass that can be made is made.
SpecLoopFair == SpecLoop /\ WF_vars(Pass)

\* C30: the loop of from_dict over the groups comes to an end whatever the
\* dictionary: every pass enters a group more in group_from_ids or is the
\* last; and when the loop ends without exception, the groups entered have
\* all their elements among the jobs and the groups entered, and each
\* group left has an element that is not: it is left out, not tried again.
C30_GroupLoopTerminates ==
    /\ (copy.state = "groups") ~> (copy.state \in {"done", "AttributeError"})
    /\ [][ (copy.state = "groups" /\ copy'.state = "groups")
           => Len(copy'.group_from_ids) > Len(copy.group_from_ids) ]_vars
    /\ [](copy.state = "done" =>
            \A i \in 1..Len(copy.serialized_groups) :
                LET known == Keys(KnownJobs) \cup Keys(copy.group_from_ids)
                    d == copy.serialized_groups[i]
                IN (d.key \in Keys(copy.group_from_ids))
                       <=> (\A k \in 1..Len(d.value.elements) : d.value.elements[k] \in known))

\* C30 witness: the loop has ended with a group entered and a group, whose
\* element is the id of nothing or its own, left out.
C30_Witness ==
    /\ copy.state = "done"
    /\ Len(copy.group_from_ids) = 1
    /\ Len(copy.to_convert) = 1

====
